---- MODULE Spec2Model ----
(***************************************************************************)
(* Model of pg-query/streamlit.py: the DatabaseAnalyzer's column-semantics *)
(* inference and schema analysis, extract_sql_from_response, and the       *)
(* Streamlit session of main(), for that script and for                    *)
(* pg-query/ui/streamlit.py.                                               *)
(*                                                                         *)
(* A Python str is a sequence of one-character strings, so that substring  *)
(* tests, suffix tests, replace() and strip() are computed, not assumed.   *)
(***************************************************************************)
EXTENDS Integers, Sequences, FiniteSets, TLC

------------------------------------------------------------------------------
(* Bounds                                                                   *)

\* the history counters stop counting here
MaxLookups == 2
\* a catalog of the build under failures has at most this many tables
MaxTables == 2
\* a session makes at most this many execute_query calls
MaxAttempts == 2
\* a raw model response is at most this many pieces long
MaxPieces == 4
\* a rendered database has at most this many foreign keys
MaxRelationships == 2
\* a streamed model response has at most this many chunks
MaxChunks == 3

------------------------------------------------------------------------------
(* Python str operations                                                    *)

EmptyStr == <<>>

\* the character U+0060, which a TLA+ string cannot hold
Backtick == "backtick"

\* Python's None, which is no str
None == << "None" >>

UpperLetters == <<"A","B","C","D","E","F","G","H","I","J","K","L","M","N","O","P","Q","R","S","T","U","V","W","X","Y","Z">>
LowerLetters == <<"a","b","c","d","e","f","g","h","i","j","k","l","m","n","o","p","q","r","s","t","u","v","w","x","y","z">>

\* str.lower() on one character
LowerChar(ch) ==
    IF \E i \in 1..Len(UpperLetters) : UpperLetters[i] = ch
    THEN LowerLetters[CHOOSE i \in 1..Len(UpperLetters) : UpperLetters[i] = ch]
    ELSE ch

\* str.lower()
Lower(s) == [i \in 1..Len(s) |-> LowerChar(s[i])]

\* s[n:]
Drop(s, n) == SubSeq(s, n + 1, Len(s))

\* s.startswith(p)
StartsWith(s, p) == Len(p) <= Len(s) /\ SubSeq(s, 1, Len(p)) = p

\* s.endswith(p)
EndsWith(s, p) == Len(p) <= Len(s) /\ SubSeq(s, Len(s) - Len(p) + 1, Len(s)) = p

\* p in s
Contains(s, p) == \E i \in 0..(Len(s) - Len(p)) : SubSeq(s, i + 1, i + Len(p)) = p

\* any(pattern in s for pattern in patterns)
AnyIn(patterns, s) == \E i \in 1..Len(patterns) : Contains(s, patterns[i])

\* any(s.endswith(suffix) for suffix in suffixes)
AnyEndsWith(s, suffixes) == \E i \in 1..Len(suffixes) : EndsWith(s, suffixes[i])

\* s.replace(old, new): every non-overlapping occurrence, leftmost first
RECURSIVE Replace(_, _, _)
Replace(s, old, new) ==
    IF Len(s) < Len(old) THEN s
    ELSE IF StartsWith(s, old) THEN new \o Replace(Drop(s, Len(old)), old, new)
    ELSE <<Head(s)>> \o Replace(Tail(s), old, new)

\* characters str.strip() and the regex class \s remove
Whitespace == {" ", "\n", "\t"}

RECURSIVE LStrip(_)
LStrip(s) == IF s # <<>> /\ Head(s) \in Whitespace THEN LStrip(Tail(s)) ELSE s

RECURSIVE RStrip(_)
RStrip(s) ==
    IF s # <<>> /\ s[Len(s)] \in Whitespace THEN RStrip(SubSeq(s, 1, Len(s) - 1)) ELSE s

\* s.strip()
Strip(s) == RStrip(LStrip(s))

------------------------------------------------------------------------------
(* DatabaseAnalyzer.infer_column_semantics: the pattern tables              *)

date_created_patterns ==
    << <<"c","r","e","a","t","e","d","_","a","t">>, <<"c","r","e","a","t","i","o","n","_","d","a","t","e">>, <<"d","a","t","e","_","c","r","e","a","t","e","d">>, <<"c","r","e","a","t","e","d","_","o","n">> >>
date_updated_patterns ==
    << <<"u","p","d","a","t","e","d","_","a","t">>, <<"m","o","d","i","f","i","c","a","t","i","o","n","_","d","a","t","e">>, <<"d","a","t","e","_","u","p","d","a","t","e","d">>, <<"m","o","d","i","f","i","e","d","_","o","n">>,
       <<"l","a","s","t","_","u","p","d","a","t","e","d">> >>
date_deleted_patterns ==
    << <<"d","e","l","e","t","e","d","_","a","t">>, <<"d","e","l","e","t","i","o","n","_","d","a","t","e">>, <<"d","a","t","e","_","d","e","l","e","t","e","d">>, <<"r","e","m","o","v","e","d","_","o","n">> >>
delivery_patterns == << <<"d","e","l","i","v","e","r","y","_","d","a","t","e">>, <<"d","e","l","i","v","e","r","e","d","_","a","t">>, <<"d","a","t","e","_","d","e","l","i","v","e","r","e","d">> >>
dispatch_patterns ==
    << <<"d","i","s","p","a","t","c","h","_","d","a","t","e">>, <<"d","i","s","p","a","t","c","h","e","d","_","a","t">>, <<"d","a","t","e","_","d","i","s","p","a","t","c","h","e","d">>, <<"s","h","i","p","p","e","d","_","d","a","t","e">>,
       <<"s","h","i","p","p","e","d","_","a","t">> >>
order_patterns == << <<"o","r","d","e","r","_","d","a","t","e">>, <<"o","r","d","e","r","e","d","_","a","t">>, <<"d","a","t","e","_","o","r","d","e","r","e","d">> >>
payment_patterns == << <<"p","a","y","m","e","n","t","_","d","a","t","e">>, <<"p","a","i","d","_","a","t">>, <<"d","a","t","e","_","p","a","i","d">> >>
id_patterns == << <<"_","i","d">>, <<"i","d">>, <<"_","k","e","y">>, <<"u","u","i","d">>, <<"g","u","i","d">> >>
status_patterns == << <<"s","t","a","t","u","s">>, <<"s","t","a","t","e">>, <<"c","o","n","d","i","t","i","o","n">> >>

DateTypes == { <<"d","a","t","e">>, <<"t","i","m","e","s","t","a","m","p">>, <<"t","i","m","e","s","t","a","m","p","t","z">>, <<"d","a","t","e","t","i","m","e">> }
NumericTypes ==
    { <<"i","n","t","e","g","e","r">>, <<"b","i","g","i","n","t">>, <<"n","u","m","e","r","i","c">>, <<"d","e","c","i","m","a","l">>, <<"d","o","u","b","l","e"," ","p","r","e","c","i","s","i","o","n">> }
BooleanTypes == { <<"b","o","o","l","e","a","n">> }
StringTypes == { <<"c","h","a","r","a","c","t","e","r"," ","v","a","r","y","i","n","g">>, <<"v","a","r","c","h","a","r">>, <<"t","e","x","t">>, <<"c","h","a","r">> }

(* the fixed labels *)
\* "Timestamp when the record was created"
MeaningCreated == <<"T","i","m","e","s","t","a","m","p"," ","w","h","e","n"," ","t","h","e"," ","r","e","c","o","r","d"," ","w","a","s"," ","c","r","e","a","t","e","d">>
\* "Timestamp when the record was last updated"
MeaningUpdated == <<"T","i","m","e","s","t","a","m","p"," ","w","h","e","n"," ","t","h","e"," ","r","e","c","o","r","d"," ","w","a","s"," ","l","a","s","t"," ","u","p","d","a","t","e","d">>
\* "Timestamp when the record was deleted (for soft deletes)"
MeaningDeleted == <<"T","i","m","e","s","t","a","m","p"," ","w","h","e","n"," ","t","h","e"," ","r","e","c","o","r","d"," ","w","a","s"," ","d","e","l","e","t","e","d"," ","(","f","o","r"," ","s","o","f","t"," ","d","e","l","e","t","e","s",")">>
\* "Date when items were actually delivered to the customer"
MeaningDelivered == <<"D","a","t","e"," ","w","h","e","n"," ","i","t","e","m","s"," ","w","e","r","e"," ","a","c","t","u","a","l","l","y"," ","d","e","l","i","v","e","r","e","d"," ","t","o"," ","t","h","e"," ","c","u","s","t","o","m","e","r">>
\* "Date when items were dispatched from the warehouse/facility"
MeaningDispatched == <<"D","a","t","e"," ","w","h","e","n"," ","i","t","e","m","s"," ","w","e","r","e"," ","d","i","s","p","a","t","c","h","e","d"," ","f","r","o","m"," ","t","h","e"," ","w","a","r","e","h","o","u","s","e","/","f","a","c","i","l","i","t","y">>
\* "Date when the order was placed"
MeaningOrdered == <<"D","a","t","e"," ","w","h","e","n"," ","t","h","e"," ","o","r","d","e","r"," ","w","a","s"," ","p","l","a","c","e","d">>
\* "Date when payment was received"
MeaningPaid == <<"D","a","t","e"," ","w","h","e","n"," ","p","a","y","m","e","n","t"," ","w","a","s"," ","r","e","c","e","i","v","e","d">>
\* "Due date or deadline"
MeaningDue == <<"D","u","e"," ","d","a","t","e"," ","o","r"," ","d","e","a","d","l","i","n","e">>
\* "Start date of an event or period"
MeaningStart == <<"S","t","a","r","t"," ","d","a","t","e"," ","o","f"," ","a","n"," ","e","v","e","n","t"," ","o","r"," ","p","e","r","i","o","d">>
\* "End date of an event or period"
MeaningEnd == <<"E","n","d"," ","d","a","t","e"," ","o","f"," ","a","n"," ","e","v","e","n","t"," ","o","r"," ","p","e","r","i","o","d">>
\* "Monetary value"
MeaningMonetary == <<"M","o","n","e","t","a","r","y"," ","v","a","l","u","e">>
\* "Quantity or count"
MeaningQuantity == <<"Q","u","a","n","t","i","t","y"," ","o","r"," ","c","o","u","n","t">>
\* "Discount value (possibly percentage if between 0-1 or 0-100)"
MeaningDiscount == <<"D","i","s","c","o","u","n","t"," ","v","a","l","u","e"," ","(","p","o","s","s","i","b","l","y"," ","p","e","r","c","e","n","t","a","g","e"," ","i","f"," ","b","e","t","w","e","e","n"," ","0","-","1"," ","o","r"," ","0","-","1","0","0",")">>
\* "Total calculated value"
MeaningTotal == <<"T","o","t","a","l"," ","c","a","l","c","u","l","a","t","e","d"," ","v","a","l","u","e">>
\* "Identifier or foreign key"
MeaningIdOrFk == <<"I","d","e","n","t","i","f","i","e","r"," ","o","r"," ","f","o","r","e","i","g","n"," ","k","e","y">>
\* "Indicates if the record "
MeaningIndicatesPrefix == <<"I","n","d","i","c","a","t","e","s"," ","i","f"," ","t","h","e"," ","r","e","c","o","r","d"," ">>
\* "Indicates if the record is active or enabled"
MeaningActive == <<"I","n","d","i","c","a","t","e","s"," ","i","f"," ","t","h","e"," ","r","e","c","o","r","d"," ","i","s"," ","a","c","t","i","v","e"," ","o","r"," ","e","n","a","b","l","e","d">>
\* "Status or state of the record"
MeaningStatus == <<"S","t","a","t","u","s"," ","o","r"," ","s","t","a","t","e"," ","o","f"," ","t","h","e"," ","r","e","c","o","r","d">>
\* "Name or title"
MeaningName == <<"N","a","m","e"," ","o","r"," ","t","i","t","l","e">>
\* "Descriptive text"
MeaningDescription == <<"D","e","s","c","r","i","p","t","i","v","e"," ","t","e","x","t">>
\* "Code or identifier"
MeaningCode == <<"C","o","d","e"," ","o","r"," ","i","d","e","n","t","i","f","i","e","r">>
\* "Address information"
MeaningAddress == <<"A","d","d","r","e","s","s"," ","i","n","f","o","r","m","a","t","i","o","n">>
\* "Email address"
MeaningEmail == <<"E","m","a","i","l"," ","a","d","d","r","e","s","s">>
\* "Phone number"
MeaningPhone == <<"P","h","o","n","e"," ","n","u","m","b","e","r">>
\* "Identifier for a "
MeaningIdentifierPrefix == <<"I","d","e","n","t","i","f","i","e","r"," ","f","o","r"," ","a"," ">>
\* "Primary identifier"
MeaningPrimary == <<"P","r","i","m","a","r","y"," ","i","d","e","n","t","i","f","i","e","r">>

\* a slip in the chain order: the order patterns are tested first
DateSemantics_OrderFirst(col_lower) ==
    IF AnyIn(order_patterns, col_lower) THEN MeaningOrdered
    ELSE IF AnyIn(date_created_patterns, col_lower) THEN MeaningCreated
    ELSE IF AnyIn(date_updated_patterns, col_lower) THEN MeaningUpdated
    ELSE IF AnyIn(date_deleted_patterns, col_lower) THEN MeaningDeleted
    ELSE IF AnyIn(delivery_patterns, col_lower) THEN MeaningDelivered
    ELSE IF AnyIn(dispatch_patterns, col_lower) THEN MeaningDispatched
    ELSE IF AnyIn(payment_patterns, col_lower) THEN MeaningPaid
    ELSE IF Contains(col_lower, <<"d","u","e">>) THEN MeaningDue
    ELSE IF Contains(col_lower, <<"s","t","a","r","t">>) THEN MeaningStart
    ELSE IF Contains(col_lower, <<"e","n","d">>) THEN MeaningEnd
    ELSE EmptyStr

\* Date semantics: the if/elif chain under the date/time types
DateSemantics(col_lower) ==
    IF AnyIn(date_created_patterns, col_lower) THEN MeaningCreated
    ELSE IF AnyIn(date_updated_patterns, col_lower) THEN MeaningUpdated
    ELSE IF AnyIn(date_deleted_patterns, col_lower) THEN MeaningDeleted
    ELSE IF AnyIn(delivery_patterns, col_lower) THEN MeaningDelivered
    ELSE IF AnyIn(dispatch_patterns, col_lower) THEN MeaningDispatched
    ELSE IF AnyIn(order_patterns, col_lower) THEN MeaningOrdered
    ELSE IF AnyIn(payment_patterns, col_lower) THEN MeaningPaid
    ELSE IF Contains(col_lower, <<"d","u","e">>) THEN MeaningDue
    ELSE IF Contains(col_lower, <<"s","t","a","r","t">>) THEN MeaningStart
    ELSE IF Contains(col_lower, <<"e","n","d">>) THEN MeaningEnd
    ELSE EmptyStr

\* Numeric semantics
NumericSemantics(col_lower) ==
    IF \/ Contains(col_lower, <<"p","r","i","c","e">>)
       \/ Contains(col_lower, <<"c","o","s","t">>)
       \/ Contains(col_lower, <<"a","m","o","u","n","t">>) THEN MeaningMonetary
    ELSE IF \/ Contains(col_lower, <<"q","u","a","n","t","i","t","y">>)
            \/ Contains(col_lower, <<"c","o","u","n","t">>)
            \/ Contains(col_lower, <<"n","u","m","b","e","r">>) THEN MeaningQuantity
    ELSE IF Contains(col_lower, <<"d","i","s","c","o","u","n","t">>) THEN MeaningDiscount
    ELSE IF Contains(col_lower, <<"t","o","t","a","l">>) THEN MeaningTotal
    ELSE IF AnyEndsWith(col_lower, id_patterns) THEN MeaningIdOrFk
    ELSE EmptyStr

\* Boolean semantics
BooleanSemantics(col_lower) ==
    IF Contains(col_lower, <<"i","s","_">>) \/ Contains(col_lower, <<"h","a","s","_">>)
    THEN MeaningIndicatesPrefix
            \o Replace(Replace(col_lower, <<"i","s","_">>, EmptyStr), <<"h","a","s","_">>, EmptyStr)
    ELSE IF Contains(col_lower, <<"a","c","t","i","v","e">>) \/ Contains(col_lower, <<"e","n","a","b","l","e","d">>)
    THEN MeaningActive
    ELSE EmptyStr

\* a slip in the chain order: 'code' is tested before the status patterns
StringSemantics_CodeFirst(col_lower) ==
    IF Contains(col_lower, <<"c","o","d","e">>) THEN MeaningCode
    ELSE IF AnyIn(status_patterns, col_lower) THEN MeaningStatus
    ELSE IF Contains(col_lower, <<"n","a","m","e">>) THEN MeaningName
    ELSE IF Contains(col_lower, <<"d","e","s","c","r","i","p","t","i","o","n">>) \/ Contains(col_lower, <<"d","e","s","c">>)
    THEN MeaningDescription
    ELSE IF Contains(col_lower, <<"a","d","d","r","e","s","s">>) THEN MeaningAddress
    ELSE IF Contains(col_lower, <<"e","m","a","i","l">>) THEN MeaningEmail
    ELSE IF Contains(col_lower, <<"p","h","o","n","e">>) THEN MeaningPhone
    ELSE EmptyStr

\* String semantics
StringSemantics(col_lower) ==
    IF AnyIn(status_patterns, col_lower) THEN MeaningStatus
    ELSE IF Contains(col_lower, <<"n","a","m","e">>) THEN MeaningName
    ELSE IF Contains(col_lower, <<"d","e","s","c","r","i","p","t","i","o","n">>) \/ Contains(col_lower, <<"d","e","s","c">>)
    THEN MeaningDescription
    ELSE IF Contains(col_lower, <<"c","o","d","e">>) THEN MeaningCode
    ELSE IF Contains(col_lower, <<"a","d","d","r","e","s","s">>) THEN MeaningAddress
    ELSE IF Contains(col_lower, <<"e","m","a","i","l">>) THEN MeaningEmail
    ELSE IF Contains(col_lower, <<"p","h","o","n","e">>) THEN MeaningPhone
    ELSE EmptyStr

\* "If no specific meaning was inferred": the identifier fallback
IdentifierFallback(col_lower) ==
    IF AnyEndsWith(col_lower, id_patterns)
       /\ (col_lower = <<"i","d">> \/ EndsWith(col_lower, <<"_","i","d">>))
    THEN LET relation == Replace(col_lower, <<"_","i","d">>, EmptyStr)
         IN  IF relation # EmptyStr
             THEN MeaningIdentifierPrefix \o relation
             ELSE MeaningPrimary
    ELSE EmptyStr

\* the meaning the type category's chain leaves in `meaning`
CategorySemantics(col_lower, data_type) ==
    IF data_type \in DateTypes THEN DateSemantics(col_lower)
    ELSE IF data_type \in NumericTypes THEN NumericSemantics(col_lower)
    ELSE IF data_type \in BooleanTypes THEN BooleanSemantics(col_lower)
    ELSE IF data_type \in StringTypes THEN StringSemantics(col_lower)
    ELSE EmptyStr

\* infer_column_semantics past the comment lookup: the value saved and returned
InferMeaning(column_name, data_type) ==
    LET col_lower == Lower(column_name)
        meaning == CategorySemantics(col_lower, data_type)
    IN  IF meaning = EmptyStr THEN IdentifierFallback(col_lower) ELSE meaning

------------------------------------------------------------------------------
(* The analyzer, the catalog it reads, and what its callers observe         *)

VARIABLES
    catalog,          \* the database's catalog: tables, their columns, comments
    column_semantics, \* self.column_semantics: "table.column" -> label
    schema_info,      \* self.schema_info: {} or the snapshot last built
    last,             \* the last call made on the analyzer and what it returned
    lookups,          \* get_comment_for_column calls per key, and
    labels,           \* labels returned per (table, column, type), both counted
                      \* from the start of the analyze_schema call that built
                      \* the snapshot (before the first: from construction)
    response,         \* extract_sql_from_response: the raw text
    sql_block,        \* sql_query once the code block or whole text is chosen
    sql_stripped,     \* sql_query once the label prefix is removed
    sql_query,        \* what extract_sql_from_response returned
    connection,       \* self.connection: "none", or the state of the psycopg2
                      \* connection: "ready", "aborted" once a statement of
                      \* its open transaction has failed at the server, or
                      \* "broken" once the server was found unreachable
    app,              \* which of the two Streamlit scripts is running
    db_up,            \* whether the database server is reachable
    llm_initialized,  \* st.session_state['llm_initialized']
    connected,        \* st.session_state['connected']
    query_history,    \* st.session_state['query_history']
    pressed,          \* the button whose press started the current script run
    pc,               \* where the script run is: "idle" once it has finished
    in_flight,        \* the calls in progress: generate, execute, explain
    screen,           \* what the current script run has rendered so far
    exec_log,         \* the execute_query calls made in the session, in order
    run_executes,     \* the execute_query calls made by the current script run
    history_tabs,     \* the tabs of "Query History" the current script run has
                      \* rendered, first tab first
    schema_description, \* st.session_state['schema_description']
    schema_for_llm,   \* st.session_state['schema_for_llm']
    stream,           \* get_llama_response: the chunks response.aiter_bytes()
                      \* yields, in arrival order
    received,         \* the chunks the loop has handled so far
    full_response,    \* its local full_response
    llama_pc          \* "idle", "streaming", "returned" or "raised"

analyzer_vars ==
    <<catalog, column_semantics, schema_info, last, lookups, labels>>
extract_vars == <<response, sql_block, sql_stripped, sql_query>>
stored_vars == <<schema_description, schema_for_llm>>
llama_vars == <<stream, received, full_response, llama_pc>>
session_vars ==
    <<connection, app, db_up, llm_initialized, connected, query_history, pressed,
      pc, in_flight, screen, exec_log, run_executes, history_tabs, stored_vars,
      llama_vars>>
flow_vars ==
    <<app, db_up, llm_initialized, connected, query_history, pressed,
      pc, in_flight, screen, exec_log, run_executes, history_tabs, stored_vars,
      llama_vars>>
flow_vars_but_llama ==
    <<app, db_up, llm_initialized, connected, query_history, pressed,
      pc, in_flight, screen, exec_log, run_executes, history_tabs, stored_vars>>
vars == <<analyzer_vars, extract_vars, session_vars>>

\* a Python dict with string keys: a function on the set of its keys
EmptyDict == <<>>
Put(dict, key, value) == (key :> value) @@ dict
Get(dict, key, default) == IF key \in DOMAIN dict THEN dict[key] ELSE default

\* f"{table_name}.{column_name}"
ColumnKey(table_name, column_name) == table_name \o <<".">> \o column_name

\* get_comment_for_column: the description of the first matching row, or ""
get_comment_for_column(cat, table_name, column_name) ==
    LET cells == UNION { { <<i, j>> : j \in 1..Len(cat[i].columns) } : i \in 1..Len(cat) }
        rows == { ij \in cells : /\ cat[ij[1]].name = table_name
                                 /\ cat[ij[1]].columns[ij[2]].name = column_name }
    IN  IF rows = {} THEN EmptyStr
        ELSE LET ij == CHOOSE r \in rows :
                         \A o \in rows : r[1] < o[1] \/ (r[1] = o[1] /\ r[2] <= o[2])
             IN  cat[ij[1]].columns[ij[2]].comment

\* a slip: the stored comment is consulted only when no pattern rule fires
infer_column_semantics_RulesFirst(cache, cat, table_name, column_name, data_type) ==
    LET column_key == ColumnKey(table_name, column_name)
    IN  IF column_key \in DOMAIN cache
        THEN [cache |-> cache, ret |-> cache[column_key], lookup |-> FALSE,
              comment |-> EmptyStr]
        ELSE LET comment == get_comment_for_column(cat, table_name, column_name)
                 inferred == InferMeaning(column_name, data_type)
                 meaning == IF inferred # EmptyStr THEN inferred ELSE comment
             IN  [cache |-> Put(cache, column_key, meaning), ret |-> meaning,
                  lookup |-> TRUE, comment |-> comment]

\* infer_column_semantics on the cache: the cache it leaves, the label
\* it returns, and whether it queried the comment store
infer_column_semantics(cache, cat, table_name, column_name, data_type) ==
    LET column_key == ColumnKey(table_name, column_name)
    IN  IF column_key \in DOMAIN cache
        THEN [cache |-> cache, ret |-> cache[column_key], lookup |-> FALSE,
              comment |-> EmptyStr]
        ELSE LET comment == get_comment_for_column(cat, table_name, column_name)
                 meaning == IF comment # EmptyStr THEN comment
                            ELSE InferMeaning(column_name, data_type)
             IN  [cache |-> Put(cache, column_key, meaning), ret |-> meaning,
                  lookup |-> TRUE, comment |-> comment]

\* get_tables: the table names, in the catalog's order
get_tables(cat) == [i \in 1..Len(cat) |-> cat[i].name]

\* get_table_columns: the name, declared type, nullability and default of each
\* column of the table (max_length, precision and scale are read by no one)
get_table_columns(cat, table_name) ==
    LET i == CHOOSE n \in 1..Len(cat) : cat[n].name = table_name
    IN  [j \in 1..Len(cat[i].columns) |->
            [name |-> cat[i].columns[j].name, type |-> cat[i].columns[j].type,
             nullable |-> cat[i].columns[j].nullable,
             default |-> cat[i].columns[j].default]]

\* get_foreign_keys: one dict per foreign-key column of the database
get_foreign_keys(cat) ==
    LET RECURSIVE Rows(_)
        Rows(i) ==
            IF i > Len(cat) THEN <<>>
            ELSE [k \in 1..Len(cat[i].foreign_keys) |->
                     [table |-> cat[i].name,
                      column |-> cat[i].foreign_keys[k].column,
                      foreign_table |-> cat[i].foreign_keys[k].foreign_table,
                      foreign_column |-> cat[i].foreign_keys[k].foreign_column]]
                 \o Rows(i + 1)
    IN  Rows(1)

\* get_primary_keys: table name -> the columns of its primary key, for the
\* tables that have one
get_primary_keys(cat) ==
    [t \in { cat[i].name : i \in { k \in 1..Len(cat) : cat[k].primary_key # <<>> } }
        |-> cat[CHOOSE n \in 1..Len(cat) : cat[n].name = t].primary_key]

\* get_comment_for_table: the description of the table, or ""
get_comment_for_table(cat, table_name) ==
    cat[CHOOSE n \in 1..Len(cat) : cat[n].name = table_name].comment

\* get_sample_data's default limit
SampleLimit == 3

\* get_sample_data when its SELECT succeeds: the first rows of the table, at
\* most SampleLimit of them, each a dict from the column names, in the order
\* of cursor.description, to the values (every value of row k is modelled by k)
get_sample_data(cat, table_name) ==
    LET i == CHOOSE n \in 1..Len(cat) : cat[n].name = table_name
    IN  [k \in 1..(IF cat[i].rows < SampleLimit THEN cat[i].rows ELSE SampleLimit)
            |-> [j \in 1..Len(cat[i].columns) |->
                    [key |-> cat[i].columns[j].name, value |-> k]]]

\* schema_info["sample_data"] once the first n tables are analysed, each
\* sample fetch having succeeded: the tables with a non-empty sample
SampleData(cat, n) ==
    [t \in { cat[i].name : i \in { k \in 1..n : cat[k].rows > 0 } }
        |-> get_sample_data(cat, t)]

\* one infer_column_semantics call, as the history variables record it
Call(table_name, column_name, data_type, r) ==
    [table |-> table_name, column |-> column_name, data_type |-> data_type,
     ret |-> r.ret, lookup |-> r.lookup]

\* analyze_schema's inner loop "for column in columns" over the build state st:
\* the cache, the snapshot under construction and the infer calls made so far
RECURSIVE ProcessColumns(_, _, _, _)
ProcessColumns(st, cat, table, columns) ==
    IF columns = <<>> THEN st
    ELSE LET column == Head(columns)
             r == infer_column_semantics(st.cache, cat, table, column.name, column.type)
             semantics == r.ret
             column_with_semantics ==
                 IF semantics # EmptyStr
                 THEN [semantics |-> semantics] @@ column
                 ELSE column
         IN  ProcessColumns(
                 [st EXCEPT
                    !.cache = r.cache,
                    !.column_semantics =
                        IF semantics # EmptyStr
                        THEN Put(@, ColumnKey(table, column.name), semantics)
                        ELSE @,
                    !.processed_columns = Append(@, column_with_semantics),
                    !.calls = Append(@, Call(table, column.name, column.type, r))],
                 cat, table, Tail(columns))

\* analyze_schema's outer loop "for table in tables"
RECURSIVE ProcessTables(_, _, _)
ProcessTables(st, cat, tables) ==
    IF tables = <<>> THEN st
    ELSE LET table == Head(tables)
             columns == get_table_columns(cat, table)
             done == ProcessColumns([st EXCEPT !.processed_columns = <<>>],
                                    cat, table, columns)
         IN  ProcessTables(
                 [done EXCEPT !.tables =
                    Append(@, [name |-> table, columns |-> done.processed_columns,
                               comment |-> get_comment_for_table(cat, table)])],
                 cat, Tail(tables))

\* analyze_schema up to its last two assignments, over the first n tables
BuildSchema(cache, cat, n) ==
    ProcessTables([cache |-> cache, column_semantics |-> EmptyDict, tables |-> <<>>,
                   processed_columns |-> <<>>, calls |-> <<>>],
                  cat, SubSeq(get_tables(cat), 1, n))

\* the dict analyze_schema assigns to self.schema_info, from the build state
\* its loop has reached and the sample rows it has fetched
SchemaInfo(cat, st, sample_data) ==
    [tables |-> st.tables,
     relationships |->
         [k \in 1..Len(get_foreign_keys(cat)) |->
             [table |-> get_foreign_keys(cat)[k].table,
              column |-> get_foreign_keys(cat)[k].column,
              references_table |-> get_foreign_keys(cat)[k].foreign_table,
              references_column |-> get_foreign_keys(cat)[k].foreign_column]],
     primary_keys |-> get_primary_keys(cat),
     sample_data |-> sample_data,
     column_semantics |-> st.column_semantics]

\* history: one more comment lookup for each call that made one
RECURSIVE CountLookups(_, _)
CountLookups(counts, calls) ==
    IF calls = <<>> THEN counts
    ELSE LET c == Head(calls)
             key == ColumnKey(c.table, c.column)
             n == Get(counts, key, 0)
         IN  CountLookups(IF c.lookup
                          THEN Put(counts, key, IF n < MaxLookups THEN n + 1 ELSE n)
                          ELSE counts,
                          Tail(calls))

\* history: the labels returned per (table, column, type)
RECURSIVE CollectLabels(_, _)
CollectLabels(seen, calls) ==
    IF calls = <<>> THEN seen
    ELSE LET c == Head(calls)
             key == <<c.table, c.column, c.data_type>>
         IN  CollectLabels(Put(seen, key, Get(seen, key, {}) \cup {c.ret}), Tail(calls))

\* self.column_semantics and schema_info["column_semantics"] are one dict object
\* once analyze_schema has returned: a write to the cache shows in the snapshot
WriteThrough(info, cache) ==
    IF info = EmptyDict THEN info ELSE [info EXCEPT !.column_semantics = cache]

------------------------------------------------------------------------------
(* generate_schema_description and generate_schema_for_llm. A rendering is  *)
(* the sequence of the pieces the method appends to its string, each with   *)
(* the place of the method that appended it; the string is their            *)
(* concatenation.                                                           *)

\* the character U+2192
Arrow == "arrow"

Digits == <<"0","1","2","3","4","5","6","7","8","9">>
\* str(n) for an int n >= 0
RECURSIVE IntStr(_)
IntStr(n) ==
    IF n < 10 THEN << Digits[n + 1] >>
    ELSE IntStr(n \div 10) \o << Digits[(n % 10) + 1] >>

\* sep.join(strings)
RECURSIVE Join(_, _)
Join(sep, strings) ==
    IF strings = <<>> THEN EmptyStr
    ELSE IF Len(strings) = 1 THEN strings[1]
    ELSE strings[1] \o sep \o Join(sep, Tail(strings))

\* str(row) of a dict of str keys and int values
DictStr(row) ==
    <<"{">> \o Join(<<","," ">>, [j \in 1..Len(row) |->
                            <<"'">> \o row[j].key \o <<"'",":"," ">> \o IntStr(row[j].value)])
          \o <<"}">>

\* f"{default}"
DefaultStr(default) == IF default = None THEN <<"N","o","n","e">> ELSE default

\* a slip: the slice is left out
Take_All(sequence, n) == sequence

\* sequence[:n]
Take(sequence, n) == SubSeq(sequence, 1, IF Len(sequence) < n THEN Len(sequence) ELSE n)

\* the rows of a sample the renderers show
ShownRows == 2

Piece(part, table, index, text) ==
    [part |-> part, table |-> table, index |-> index, text |-> text]

RECURSIVE Flatten(_)
Flatten(lists) ==
    IF lists = <<>> THEN <<>> ELSE Head(lists) \o Flatten(Tail(lists))

\* the string a rendering makes
RECURSIVE Text(_)
Text(pieces) ==
    IF pieces = <<>> THEN EmptyStr ELSE Head(pieces).text \o Text(Tail(pieces))

\* the keys a renderer reads with [...] from the snapshot and from a column:
\* a missing one raises KeyError
DescriptionKeys == { "tables", "relationships", "column_semantics" }
BriefKeys == { "tables", "relationships", "column_semantics", "primary_keys" }
ColumnKeys == { "name", "type", "nullable" }
MissingKey(info, keys) ==
    \/ ~(keys \subseteq DOMAIN info)
    \/ \E i \in 1..Len(info.tables) : \E j \in 1..Len(info.tables[i].columns) :
          ~(ColumnKeys \subseteq DOMAIN info.tables[i].columns[j])

\* a slip: the referenced column's label is used also when it is empty
Connects_LabelOnly(info, rel) ==
    LET fk_semantic ==
            Get(info.column_semantics, ColumnKey(rel.table, rel.column), EmptyStr)
        pk_semantic ==
            Get(info.column_semantics,
                ColumnKey(rel.references_table, rel.references_column), EmptyStr)
    IN  IF fk_semantic # EmptyStr \/ pk_semantic # EmptyStr
        THEN <<"(","C","o","n","n","e","c","t","s"," ">>
             \o (IF fk_semantic # EmptyStr THEN fk_semantic \o <<" ">> ELSE EmptyStr)
             \o <<"t","o"," ">> \o pk_semantic \o <<")">>
        ELSE EmptyStr

\* the "(Connects ... to ...)" of a relationship, in both renderers: nothing
\* when neither end has a label
Connects(info, rel) ==
    LET fk_semantic ==
            Get(info.column_semantics, ColumnKey(rel.table, rel.column), EmptyStr)
        pk_semantic ==
            Get(info.column_semantics,
                ColumnKey(rel.references_table, rel.references_column), EmptyStr)
    IN  IF fk_semantic # EmptyStr \/ pk_semantic # EmptyStr
        THEN <<"(","C","o","n","n","e","c","t","s"," ">>
             \o (IF fk_semantic # EmptyStr THEN fk_semantic \o <<" ">> ELSE EmptyStr)
             \o <<"t","o"," ">>
             \o (IF pk_semantic # EmptyStr THEN pk_semantic ELSE rel.references_table)
             \o <<")">>
        ELSE EmptyStr

\* generate_schema_description: the pieces for table i of the snapshot
DescribeTable(info, i) ==
    LET table_name == info.tables[i].name
        table_info == info.tables[i]
        ColumnLine(j) ==
            LET column == table_info.columns[j]
                nullable == IF column.nullable = <<"Y","E","S">> THEN <<"N","U","L","L">> ELSE <<"N","O","T"," ","N","U","L","L">>
                default == IF "default" \in DOMAIN column /\ column.default # None
                              /\ column.default # EmptyStr
                           THEN <<","," ","D","E","F","A","U","L","T",":"," ">> \o column.default ELSE EmptyStr
            IN  Piece("column", table_name, j,
                      <<" "," ","-"," ">> \o column.name \o <<" ","(">> \o column.type \o <<","," ">>
                      \o nullable \o default \o <<")">>
                      \o (IF "semantics" \in DOMAIN column /\ column.semantics # EmptyStr
                          THEN <<" ","-"," ">> \o column.semantics ELSE EmptyStr)
                      \o <<"\n">>)
        rows == IF table_name \in DOMAIN Get(info, "sample_data", EmptyDict)
                THEN Take(info.sample_data[table_name], ShownRows) ELSE <<>>
    IN  << Piece("table", table_name, i,
                 <<"T","a","b","l","e",":"," ">> \o table_name
                 \o (IF Get(table_info, "comment", EmptyStr) # EmptyStr
                     THEN <<" ","-"," ">> \o table_info.comment ELSE EmptyStr)
                 \o <<"\n">>),
           Piece("columns", table_name, i, <<"C","o","l","u","m","n","s",":","\n">>) >>
        \o [j \in 1..Len(table_info.columns) |-> ColumnLine(j)]
        \o (IF table_name \in DOMAIN Get(info, "primary_keys", EmptyDict)
            THEN << Piece("primary_key", table_name, i,
                          <<" "," ","P","r","i","m","a","r","y"," ","K","e","y",":"," ">>
                          \o Join(<<","," ">>, info.primary_keys[table_name]) \o <<"\n">>) >>
            ELSE <<>>)
        \o (IF table_name \in DOMAIN Get(info, "sample_data", EmptyDict)
            THEN << Piece("sample_data", table_name, i, <<"S","a","m","p","l","e"," ","d","a","t","a",":","\n">>) >>
                 \o [k \in 1..Len(rows) |->
                        Piece("sample_row", table_name, k,
                              <<" "," ","R","o","w"," ">> \o IntStr(k) \o <<":"," ">> \o DictStr(rows[k])
                              \o <<"\n">>)]
            ELSE <<>>)
        \o << Piece("table_end", table_name, i, <<"\n">>) >>

\* generate_schema_description on a snapshot: the pieces of the description
DescriptionPieces(info) ==
    << Piece("title", EmptyStr, 0, <<"D","a","t","a","b","a","s","e"," ","S","c","h","e","m","a",":","\n","\n">>) >>
    \o Flatten([i \in 1..Len(info.tables) |-> DescribeTable(info, i)])
    \o (IF info.relationships # <<>>
        THEN << Piece("relationships", EmptyStr, 0, <<"R","e","l","a","t","i","o","n","s","h","i","p","s",":","\n">>) >>
             \o Flatten([k \in 1..Len(info.relationships) |->
                   LET rel == info.relationships[k]
                   IN  << Piece("relationship", rel.table, k,
                                <<" "," ","-"," ">> \o rel.table \o <<".">> \o rel.column
                                \o <<" ","r","e","f","e","r","e","n","c","e","s"," ">> \o rel.references_table
                                \o <<".">> \o rel.references_column \o <<"\n">>) >>
                       \o (IF Connects(info, rel) # EmptyStr
                           THEN << Piece("connects", rel.table, k,
                                         <<" "," "," "," ">> \o Connects(info, rel) \o <<"\n">>) >>
                           ELSE <<>>)])
        ELSE <<>>)

\* the guidance generate_schema_for_llm puts before the tables
Guidance ==
    <<"\n","W","h","e","n"," ","i","n","t","e","r","p","r","e","t","i","n","g"," ","c","o","l","u","m","n"," ","n","a","m","e","s"," ","a","n","d"," ","g","e","n","e","r","a","t","i","n","g"," ","S","Q","L"," ","q","u","e","r","i","e","s",","," ","p","l","e","a","s","e"," ","n","o","t","e",":","\n">>
    \o <<"-"," ","D","a","t","e"," ","c","o","l","u","m","n","s"," ","w","i","t","h"," ","d","i","f","f","e","r","e","n","t"," ","n","a","m","e","s"," ","u","s","u","a","l","l","y"," ","h","a","v","e"," ","s","p","e","c","i","f","i","c"," ","m","e","a","n","i","n","g","s"," ","(","e",".","g",".",","," ","o","r","d","e","r","_","d","a","t","e"," ","v","s","."," ","d","e","l","i","v","e","r","y","_","d","a","t","e"," ","v","s","."," ","d","i","s","p","a","t","c","h","_","d","a","t","e",")","\n">>
    \o <<"-"," ","P","r","i","m","a","r","y"," ","k","e","y","s"," ","a","r","e"," ","u","s","e","d"," ","t","o"," ","u","n","i","q","u","e","l","y"," ","i","d","e","n","t","i","f","y"," ","r","e","c","o","r","d","s","\n">>
    \o <<"-"," ","F","o","r","e","i","g","n"," ","k","e","y","s"," ","r","e","p","r","e","s","e","n","t"," ","r","e","l","a","t","i","o","n","s","h","i","p","s"," ","b","e","t","w","e","e","n"," ","t","a","b","l","e","s","\n">>
    \o <<"-"," ","C","o","l","u","m","n"," ","s","e","m","a","n","t","i","c","s"," ","d","e","s","c","r","i","b","e"," ","t","h","e"," ","i","n","t","e","n","d","e","d"," ","m","e","a","n","i","n","g"," ","a","n","d"," ","u","s","e"," ","o","f"," ","e","a","c","h"," ","c","o","l","u","m","n","\n">>
    \o <<"-"," ","R","e","s","p","e","c","t"," ","d","a","t","a"," ","t","y","p","e","s"," ","w","h","e","n"," ","c","o","m","p","a","r","i","n","g"," ","o","r"," ","f","i","l","t","e","r","i","n","g"," ","v","a","l","u","e","s","\n">>
    \o <<"-"," ","U","s","e"," ","a","p","p","r","o","p","r","i","a","t","e"," ","j","o","i","n","s"," ","b","a","s","e","d"," ","o","n"," ","t","h","e"," ","r","e","l","a","t","i","o","n","s","h","i","p","s"," ","d","e","f","i","n","e","d"," ","b","e","l","o","w","\n","\n">>

\* generate_schema_for_llm: the pieces for table i of the snapshot
BriefTable(info, i) ==
    LET table_name == info.tables[i].name
        table_info == info.tables[i]
        pk_columns == Get(info.primary_keys, table_name, <<>>)
        ColumnLine(j) ==
            LET column == table_info.columns[j]
                nullable == IF column.nullable = <<"Y","E","S">> THEN <<"Y","E","S">> ELSE <<"N","O">>
                default == DefaultStr(Get(column, "default", EmptyStr))
                is_pk == IF \E n \in 1..Len(pk_columns) : pk_columns[n] = column.name
                         THEN <<"Y","E","S">> ELSE <<"N","O">>
                semantics == Get(column, "semantics", EmptyStr)
            IN  Piece("column", table_name, j,
                      <<"|"," ">> \o column.name \o <<" ","|"," ">> \o column.type \o <<" ","|"," ">>
                      \o nullable \o <<" ","|"," ">> \o default \o <<" ","|"," ">> \o is_pk \o <<" ","|"," ">>
                      \o semantics \o <<" ","|","\n">>)
        sample_data == Get(Get(info, "sample_data", EmptyDict), table_name, <<>>)
        keys == [j \in 1..Len(sample_data[1]) |-> sample_data[1][j].key]
        ValueOf(row, key) == row[CHOOSE j \in 1..Len(row) : row[j].key = key].value
        rows == Take(sample_data, ShownRows)
    IN  << Piece("table", table_name, i,
                 <<"#","#"," ","T","a","b","l","e",":"," ">> \o table_name
                 \o (IF Get(table_info, "comment", EmptyStr) # EmptyStr
                     THEN <<" ","-"," ">> \o table_info.comment ELSE EmptyStr)
                 \o <<"\n","\n">>),
           Piece("columns", table_name, i,
                 <<"|"," ","C","o","l","u","m","n"," ","N","a","m","e"," ","|"," ","D","a","t","a"," ","T","y","p","e"," ","|"," ","N","u","l","l","a","b","l","e"," ","|"," ","D","e","f","a","u","l","t"," ","|"," ","P","r","i","m","a","r","y"," ","K","e","y"," ","|"," ","M","e","a","n","i","n","g"," ","|","\n">>
                 \o <<"|","-","-","-","-","-","-","-","-","-","-","-","-","|","-","-","-","-","-","-","-","-","-","-","-","|","-","-","-","-","-","-","-","-","-","-","|","-","-","-","-","-","-","-","-","-","|","-","-","-","-","-","-","-","-","-","-","-","-","-","|","-","-","-","-","-","-","-","-","|","\n">>) >>
        \o [j \in 1..Len(table_info.columns) |-> ColumnLine(j)]
        \o (IF sample_data # <<>>
            THEN << Piece("sample_data", table_name, i, <<"\n","S","a","m","p","l","e"," ","d","a","t","a",":","\n",Backtick,Backtick,Backtick,"\n">>),
                    Piece("sample_keys", table_name, i, Join(<<","," ">>, keys) \o <<"\n">>) >>
                 \o [k \in 1..Len(rows) |->
                        Piece("sample_row", table_name, k,
                              Join(<<","," ">>, [n \in 1..Len(keys) |->
                                              IntStr(ValueOf(rows[k], keys[n]))])
                              \o <<"\n">>)]
                 \o << Piece("sample_end", table_name, i, <<Backtick,Backtick,Backtick,"\n">>) >>
            ELSE <<>>)
        \o << Piece("table_end", table_name, i, <<"\n">>) >>

\* a slip: every labelled column is collected, whatever its type
DateColumns_AnyType(info) ==
    Flatten([i \in 1..Len(info.tables) |->
        Flatten([j \in 1..Len(info.tables[i].columns) |->
            LET column == info.tables[i].columns[j]
                semantic == Get(column, "semantics", EmptyStr)
            IN  IF semantic # EmptyStr
                THEN << [col |-> ColumnKey(info.tables[i].name, column.name),
                         meaning |-> semantic] >>
                ELSE <<>>])])

\* generate_schema_for_llm: the date_columns it collects, in insertion order
DateColumns(info) ==
    Flatten([i \in 1..Len(info.tables) |->
        Flatten([j \in 1..Len(info.tables[i].columns) |->
            LET column == info.tables[i].columns[j]
                semantic == Get(column, "semantics", EmptyStr)
            IN  IF column.type \in DateTypes /\ semantic # EmptyStr
                THEN << [col |-> ColumnKey(info.tables[i].name, column.name),
                         meaning |-> semantic] >>
                ELSE <<>>])])

\* generate_schema_for_llm on a snapshot: the pieces of the brief
BriefPieces(info) ==
    << Piece("title", EmptyStr, 0, <<"#"," ","D","a","t","a","b","a","s","e"," ","S","c","h","e","m","a","\n","\n">>),
       Piece("guidance", EmptyStr, 0, Guidance) >>
    \o Flatten([i \in 1..Len(info.tables) |-> BriefTable(info, i)])
    \o (IF info.relationships # <<>>
        THEN << Piece("relationships", EmptyStr, 0, <<"#","#"," ","R","e","l","a","t","i","o","n","s","h","i","p","s","\n","\n">>) >>
             \o Flatten([k \in 1..Len(info.relationships) |->
                   LET rel == info.relationships[k]
                   IN  << Piece("relationship", rel.table, k,
                                <<"-"," ">> \o rel.table \o <<".">> \o rel.column
                                \o << " ", Arrow, " " >> \o rel.references_table
                                \o <<".">> \o rel.references_column) >>
                       \o (IF Connects(info, rel) # EmptyStr
                           THEN << Piece("connects", rel.table, k,
                                         <<" ">> \o Connects(info, rel)) >>
                           ELSE <<>>)
                       \o << Piece("relationship_end", rel.table, k, <<"\n">>) >>])
        ELSE <<>>)
    \o (IF DateColumns(info) # <<>>
        THEN << Piece("date_columns", EmptyStr, 0,
                      <<"\n","#","#"," ","D","a","t","e","/","T","i","m","e"," ","C","o","l","u","m","n"," ","R","e","f","e","r","e","n","c","e","\n","\n">>
                      \o <<"|"," ","C","o","l","u","m","n"," ","|"," ","M","e","a","n","i","n","g"," ","|","\n">>
                      \o <<"|","-","-","-","-","-","-","-","-","|","-","-","-","-","-","-","-","-","|","\n">>) >>
             \o [n \in 1..Len(DateColumns(info)) |->
                    Piece("date_column", DateColumns(info)[n].col, n,
                          <<"|"," ">> \o DateColumns(info)[n].col \o <<" ","|"," ">>
                          \o DateColumns(info)[n].meaning \o <<" ","|","\n">>)]
        ELSE <<>>)

\* what a renderer returns on a snapshot: it raises on a missing key, else it
\* returns the string of its pieces
Rendering(info, keys, pieces) ==
    IF MissingKey(info, keys)
    THEN [raised |-> TRUE, pieces |-> <<>>, text |-> EmptyStr]
    ELSE [raised |-> FALSE, pieces |-> pieces, text |-> Text(pieces)]

generate_schema_description(info) ==
    Rendering(info, DescriptionKeys,
              IF MissingKey(info, DescriptionKeys) THEN <<>> ELSE DescriptionPieces(info))

generate_schema_for_llm(info) ==
    Rendering(info, BriefKeys,
              IF MissingKey(info, BriefKeys) THEN <<>> ELSE BriefPieces(info))

------------------------------------------------------------------------------
(* Operations                                                               *)

\* a caller invokes infer_column_semantics(table_name, column_name, data_type)
InferCall(table_name, column_name, data_type) ==
    LET r == infer_column_semantics(column_semantics, catalog,
                                    table_name, column_name, data_type)
        call == Call(table_name, column_name, data_type, r)
    IN  /\ column_semantics' = r.cache
        /\ schema_info' = WriteThrough(schema_info, r.cache)
        /\ last' = [op |-> "infer", table |-> table_name, column |-> column_name,
                    data_type |-> data_type, ret |-> r.ret, lookup |-> r.lookup]
        /\ lookups' = CountLookups(lookups, <<call>>)
        /\ labels' = CollectLabels(labels, <<call>>)
        /\ UNCHANGED <<catalog, extract_vars, session_vars>>

\* a slip: the snapshot takes the analyzer's cache as its map, and with it
\* the empty labels the cache holds
AnalyzeSchema_KeepsCache ==
    LET st == BuildSchema(column_semantics, catalog, Len(catalog))
        info == SchemaInfo(catalog, st, SampleData(catalog, Len(catalog)))
    IN  /\ schema_info' = [info EXCEPT !.column_semantics = st.cache]
        /\ column_semantics' = st.cache
        /\ last' = [op |-> "analyze_schema"]
        /\ lookups' = CountLookups(EmptyDict, st.calls)
        /\ labels' = CollectLabels(EmptyDict, st.calls)
        /\ UNCHANGED <<catalog, extract_vars, session_vars>>

\* analyze_schema runs to its end: the snapshot and the cache are replaced
AnalyzeSchema ==
    LET st == BuildSchema(column_semantics, catalog, Len(catalog))
        info == SchemaInfo(catalog, st, SampleData(catalog, Len(catalog)))
    IN  /\ schema_info' = info
        /\ column_semantics' = info.column_semantics
        /\ last' = [op |-> "analyze_schema"]
        /\ lookups' = CountLookups(EmptyDict, st.calls)
        /\ labels' = CollectLabels(EmptyDict, st.calls)
        /\ UNCHANGED <<catalog, extract_vars, session_vars>>

\* analyze_schema raises in a catalog query for table n (the connection drops):
\* the tables before it were processed, the final assignments are not reached
AnalyzeSchemaRaises(n) ==
    LET st == BuildSchema(column_semantics, catalog, n - 1)
    IN  /\ column_semantics' = st.cache
        /\ schema_info' = WriteThrough(schema_info, st.cache)
        /\ last' = [op |-> "analyze_schema raised"]
        /\ lookups' = CountLookups(lookups, st.calls)
        /\ labels' = CollectLabels(labels, st.calls)
        /\ UNCHANGED <<catalog, extract_vars, session_vars>>

\* the statements analyze_schema sends for one table: the columns query of
\* get_table_columns, the query of get_comment_for_table, the query of
\* get_comment_for_column, and the SELECT of get_sample_data, which can fail
\* at the server ("sample") or while its rows are fetched ("sample_rows")
MetadataQueries == { "columns", "table_comment", "column_comment" }
SampleQueries == { "sample", "sample_rows" }
NoFault == [table |-> 0, query |-> "none"]
Faults(cat) ==
    { NoFault } \cup
    { [table |-> n, query |-> q] :
        n \in 1..Len(cat), q \in MetadataQueries \cup SampleQueries }

\* whether the statement named by fault is sent at all during analyze_schema:
\* the comment of a cached column is not queried, the rows of an empty table
\* are not fetched
IsSent(cache, cat, fault) ==
    /\ fault.table \in 1..Len(cat)
    /\ fault.query = "column_comment"
          => \E j \in 1..Len(cat[fault.table].columns) :
                ColumnKey(cat[fault.table].name, cat[fault.table].columns[j].name)
                    \notin DOMAIN BuildSchema(cache, cat, fault.table - 1).cache
    /\ fault.query = "sample_rows" => cat[fault.table].rows > 0

\* analyze_schema on a connection in state conn, when the statement named by
\* fault fails: whether it raised, the build state it reached, and the state
\* of the connection. No method catches the error of a metadata query. The
\* except clause of get_sample_data returns [] and does not roll back: after
\* an error at the server the transaction of the connection is aborted and the
\* next statement sent on it, the columns query of the next table, raises.
analyze_schema(cache, cat, conn, fault) ==
    LET n == fault.table
        all == SampleData(cat, Len(cat))
        without == [t \in DOMAIN all \ { cat[n].name } |-> all[t]]
    IN  IF conn = "aborted"
        THEN [raised |-> TRUE, occurred |-> FALSE, conn |-> conn,
              st |-> BuildSchema(cache, cat, 0), sample_data |-> EmptyDict]
        ELSE IF ~IsSent(cache, cat, fault)
        THEN [raised |-> FALSE, occurred |-> FALSE, conn |-> "ready",
              st |-> BuildSchema(cache, cat, Len(cat)), sample_data |-> all]
        ELSE IF fault.query \in MetadataQueries
        THEN [raised |-> TRUE, occurred |-> TRUE, conn |-> "aborted",
              st |-> BuildSchema(cache, cat, n - 1), sample_data |-> EmptyDict]
        ELSE IF fault.query = "sample_rows"
        THEN [raised |-> FALSE, occurred |-> TRUE, conn |-> "ready",
              st |-> BuildSchema(cache, cat, Len(cat)), sample_data |-> without]
        ELSE IF n < Len(cat)
        THEN [raised |-> TRUE, occurred |-> TRUE, conn |-> "aborted",
              st |-> BuildSchema(cache, cat, n), sample_data |-> EmptyDict]
        ELSE [raised |-> FALSE, occurred |-> TRUE, conn |-> "aborted",
              st |-> BuildSchema(cache, cat, Len(cat)), sample_data |-> without]

\* a caller invokes analyze_schema and the statement named by fault fails
AnalyzeSchemaFault(fault) ==
    \E r \in { analyze_schema(column_semantics, catalog, connection, fault) } :
    LET info == SchemaInfo(catalog, r.st, r.sample_data)
    IN  /\ connection' = r.conn
        /\ IF r.raised
           THEN /\ column_semantics' = r.st.cache
                /\ schema_info' = WriteThrough(schema_info, r.st.cache)
                /\ lookups' = CountLookups(lookups, r.st.calls)
                /\ labels' = CollectLabels(labels, r.st.calls)
           ELSE /\ schema_info' = info
                /\ column_semantics' = info.column_semantics
                /\ lookups' = CountLookups(EmptyDict, r.st.calls)
                /\ labels' = CollectLabels(EmptyDict, r.st.calls)
        /\ last' = [op |-> IF r.raised THEN "analyze_schema raised"
                                       ELSE "analyze_schema",
                    fault |-> fault, occurred |-> r.occurred]
        /\ UNCHANGED <<catalog, extract_vars, flow_vars>>

\* a caller invokes connect() and the database accepts: a new connection
Connect ==
    /\ connection' = "ready"
    /\ last' = [op |-> "connect"]
    /\ UNCHANGED <<catalog, column_semantics, schema_info, lookups, labels,
                   extract_vars, flow_vars>>

\* the database's owner runs COMMENT ON COLUMN
CommentOnColumn(i, j, comment) ==
    /\ catalog[i].columns[j].comment # comment
    /\ catalog' = [catalog EXCEPT ![i].columns[j].comment = comment]
    /\ last' = [op |-> "catalog changed"]
    /\ UNCHANGED <<column_semantics, schema_info, lookups, labels, extract_vars,
                   session_vars>>

\* "if not self.schema_info: self.analyze_schema()" at the head of both
\* renderers: the build, when no snapshot is held
LazyAnalyze(info, cache, cat) ==
    IF info = EmptyDict
    THEN LET st == BuildSchema(cache, cat, Len(cat))
         IN  [analyzed |-> TRUE,
              info |-> SchemaInfo(cat, st, SampleData(cat, Len(cat))),
              calls |-> st.calls]
    ELSE [analyzed |-> FALSE, info |-> info, calls |-> <<>>]

\* what a renderer call leaves in the analyzer, a being what LazyAnalyze did
\* and r what the renderer returned
RendererCall(op, a, r) ==
    /\ schema_info' = a.info
    /\ column_semantics' = IF a.analyzed THEN a.info.column_semantics
                           ELSE column_semantics
    /\ lookups' = IF a.analyzed THEN CountLookups(EmptyDict, a.calls) ELSE lookups
    /\ labels' = IF a.analyzed THEN CollectLabels(EmptyDict, a.calls) ELSE labels
    /\ last' = [op |-> op, analyzed |-> a.analyzed, raised |-> r.raised,
                pieces |-> r.pieces, ret |-> r.text]
    /\ UNCHANGED <<catalog, extract_vars, session_vars>>

\* a caller invokes generate_schema_description()
GenerateSchemaDescription ==
    \E a \in { LazyAnalyze(schema_info, column_semantics, catalog) } :
    \E r \in { generate_schema_description(a.info) } :
        RendererCall("generate_schema_description", a, r)

\* a caller invokes generate_schema_for_llm()
GenerateSchemaForLlm ==
    \E a \in { LazyAnalyze(schema_info, column_semantics, catalog) } :
    \E r \in { generate_schema_for_llm(a.info) } :
        RendererCall("generate_schema_for_llm", a, r)

------------------------------------------------------------------------------
(* extract_sql_from_response                                                *)

Fence == <<Backtick,Backtick,Backtick>>
SqlTag == <<"s","q","l">>

IsFenceAt(text, p) == p >= 1 /\ p + 2 <= Len(text) /\ SubSeq(text, p, p + 2) = Fence

\* the lazy .*? and the closing fence: the first closing fence at or after position from,
\* 0 when there is none
FirstFenceFrom(text, from) ==
    IF \E p \in from..Len(text) : IsFenceAt(text, p)
    THEN CHOOSE p \in from..Len(text) :
            IsFenceAt(text, p) /\ \A q \in from..(p - 1) : ~IsFenceAt(text, q)
    ELSE 0

\* sql_block_pattern tried at position i: the interior it captures
\* and where the match ends, or no match
MatchAt(text, i) ==
    IF ~IsFenceAt(text, i) THEN [matched |-> FALSE]
    ELSE LET tagged == i + 5 <= Len(text) /\ SubSeq(text, i + 3, i + 5) = SqlTag
             pt == IF tagged THEN FirstFenceFrom(text, i + 6) ELSE 0
             pu == FirstFenceFrom(text, i + 3)
         IN  IF pt # 0
             THEN [matched |-> TRUE, group |-> SubSeq(text, i + 6, pt - 1),
                   end |-> pt + 3]
             ELSE IF pu # 0
             THEN [matched |-> TRUE, group |-> SubSeq(text, i + 3, pu - 1),
                   end |-> pu + 3]
             ELSE [matched |-> FALSE]

\* re.findall(sql_block_pattern, response, re.DOTALL), scanning from position i
RECURSIVE FindAll(_, _)
FindAll(text, i) ==
    IF i > Len(text) THEN <<>>
    ELSE LET m == MatchAt(text, i)
         IN  IF m.matched THEN <<m.group>> \o FindAll(text, m.end)
             ELSE FindAll(text, i + 1)

\* a slip: the last code block is used, not the first
SelectBlock_Last(text) ==
    LET matches == FindAll(text, 1)
    IN  IF matches # <<>> THEN Strip(matches[Len(matches)]) ELSE Strip(text)

\* matches[0].strip() if matches else response.strip()
SelectBlock(text) ==
    LET matches == FindAll(text, 1)
    IN  IF matches # <<>> THEN Strip(matches[1]) ELSE Strip(text)

\* the alternatives of the prefix pattern, in the order of the pattern
PrefixWords == << <<"s","q","l"," ","q","u","e","r","y">>, <<"q","u","e","r","y">>, <<"s","q","l">> >>

\* re.sub(r'^(?:SQL query|Query|SQL):?\s*', '', s, flags=re.IGNORECASE)
StripPrefix(s) ==
    LET hits == { k \in 1..Len(PrefixWords) :
                    /\ Len(PrefixWords[k]) <= Len(s)
                    /\ Lower(SubSeq(s, 1, Len(PrefixWords[k]))) = PrefixWords[k] }
    IN  IF hits = {} THEN s
        ELSE LET k == CHOOSE h \in hits : \A o \in hits : h <= o
                 rest == Drop(s, Len(PrefixWords[k]))
                 after == IF rest # <<>> /\ Head(rest) = ":" THEN Tail(rest) ELSE rest
             IN  LStrip(after)

\* a slip: only whole fences are removed, a single backtick stays
RemoveBackticks_FencesOnly(s) == Replace(s, Fence, EmptyStr)

\* sql_query.replace(backtick, '')
RemoveBackticks(s) == Replace(s, <<Backtick>>, EmptyStr)

\* a caller invokes extract_sql_from_response(response)
ExtractSql ==
    /\ sql_block' = SelectBlock(response)
    /\ sql_stripped' = StripPrefix(sql_block')
    /\ sql_query' = [returned |-> TRUE, value |-> RemoveBackticks(sql_stripped')]
    /\ UNCHANGED <<response, analyzer_vars, session_vars>>

------------------------------------------------------------------------------
(* LlamaInterface.get_llama_response: the loop over the chunks of the       *)
(* streamed response                                                        *)

\* json.dumps of the dict a server event carries, and the event as one chunk
EventJson(content, stop) ==
    <<"{","\"","c","o","n","t","e","n","t","\"",":","\"">> \o content \o <<"\"",",","\"","s","t","o","p","\"",":">>
    \o (IF stop THEN <<"t","r","u","e">> ELSE <<"f","a","l","s","e">>) \o <<"}">>
Event(content, stop) == <<"d","a","t","a",":"," ">> \o EventJson(content, stop) \o <<"\n","\n">>

\* the position of the first double quote of text, 0 when it has none
FirstQuote(text) ==
    IF \E n \in 1..Len(text) : text[n] = "\""
    THEN CHOOSE n \in 1..Len(text) :
            text[n] = "\"" /\ \A m \in 1..(n - 1) : text[m] # "\""
    ELSE 0

\* json.loads on the documents the chunks of this model can hold: an object
\* with the keys content (a string without escapes) and stop (a boolean), in
\* this order, either of them optional, white space around it allowed;
\* any other text raises JSONDecodeError
json_loads(text) ==
    LET t == Strip(text)
        JsonError == [error |-> TRUE, data |-> EmptyDict]
        Loaded(data) == [error |-> FALSE, data |-> data]
    IN  IF t = <<"{","\"","s","t","o","p","\"",":","f","a","l","s","e","}">> THEN Loaded([stop |-> FALSE])
        ELSE IF t = <<"{","\"","s","t","o","p","\"",":","t","r","u","e","}">> THEN Loaded([stop |-> TRUE])
        ELSE IF ~StartsWith(t, <<"{","\"","c","o","n","t","e","n","t","\"",":","\"">>) THEN JsonError
        ELSE LET rest == Drop(t, Len(<<"{","\"","c","o","n","t","e","n","t","\"",":","\"">>))
                 q == FirstQuote(rest)
                 content == SubSeq(rest, 1, q - 1)
                 after == Drop(rest, q)
             IN  IF q = 0 THEN JsonError
                 ELSE IF after = <<"}">> THEN Loaded([content |-> content])
                 ELSE IF after = <<",","\"","s","t","o","p","\"",":","f","a","l","s","e","}">>
                 THEN Loaded([content |-> content, stop |-> FALSE])
                 ELSE IF after = <<",","\"","s","t","o","p","\"",":","t","r","u","e","}">>
                 THEN Loaded([content |-> content, stop |-> TRUE])
                 ELSE JsonError

\* the characters chunk.decode('utf-8')[6:] drops: the length of "data: "
DataPrefixLength == 6

\* the body of "async for chunk": the text after the first 6 characters is
\* loaded, the content is appended when stop is False, and any exception
\* (JSONDecodeError, KeyError) is passed over; the loop goes on in every case
HandleChunk(so_far, chunk) ==
    LET loaded == json_loads(Drop(chunk, DataPrefixLength))
    IN  IF loaded.error \/ "stop" \notin DOMAIN loaded.data
        THEN [full_response |-> so_far, goes_on |-> TRUE]
        ELSE IF loaded.data.stop = FALSE /\ "content" \in DOMAIN loaded.data
        THEN [full_response |-> so_far \o loaded.data.content, goes_on |-> TRUE]
        ELSE [full_response |-> so_far, goes_on |-> TRUE]

\* get_llama_response(prompt) is called: the request is sent
StartCompletion ==
    /\ llama_pc = "idle"
    /\ llama_pc' = "streaming"
    /\ full_response' = EmptyStr
    /\ received' = 0
    /\ UNCHANGED <<stream, analyzer_vars, extract_vars, connection,
                   flow_vars_but_llama>>

\* the next chunk arrives and the body of the loop handles it
ReceiveChunk ==
    /\ llama_pc = "streaming"
    /\ received < Len(stream)
    /\ \E r \in { HandleChunk(full_response, stream[received + 1]) } :
          /\ full_response' = r.full_response
          /\ received' = received + 1
          /\ llama_pc' = IF r.goes_on THEN "streaming" ELSE "returned"
    /\ UNCHANGED <<stream, analyzer_vars, extract_vars, connection,
                   flow_vars_but_llama>>

\* the response ends: get_llama_response returns full_response
ResponseEnds ==
    /\ llama_pc = "streaming"
    /\ received = Len(stream)
    /\ llama_pc' = "returned"
    /\ UNCHANGED <<stream, received, full_response, analyzer_vars, extract_vars,
                   connection, flow_vars_but_llama>>

\* the connection to the LLM service fails or the timeout of 120 s passes
\* while the response is read: httpx raises and get_llama_response with it
TransportFails ==
    /\ llama_pc = "streaming"
    /\ received < Len(stream)
    /\ llama_pc' = "raised"
    /\ UNCHANGED <<stream, received, full_response, analyzer_vars, extract_vars,
                   connection, flow_vars_but_llama>>

------------------------------------------------------------------------------
(* main(): the Streamlit script of pg-query/streamlit.py and the one of      *)
(* pg-query/ui/streamlit.py. Streamlit runs the script from its first line   *)
(* on every press of a button; a button returns True only in the run that    *)
(* its press started, and a widget is on the screen only when the current    *)
(* run has rendered it. The user acts when the run has finished.             *)

CoreApp == "pg-query/streamlit.py"
UiApp == "pg-query/ui/streamlit.py"
Apps == { CoreApp, UiApp }

\* the statements the database of the session accepts
DatabaseAccepts(query) == query = <<"S","E","L","E","C","T"," ","1",";">>

\* asyncio.run and a plain call return when the call has completed
Begin(flight, call) == flight \cup { call }

\* a slip: the call is started and not waited for
Await_Detached(flight, call) == flight

Await(flight, call) == flight \ { call }

\* connect(): a new connection when the server accepts, else self.connection
\* keeps its value
connect(conn, up) ==
    IF up THEN [success |-> TRUE, conn |-> "ready"]
    ELSE [success |-> FALSE, conn |-> conn]

\* check_connection_health(): whether a statement can run on the connection
check_connection_health(conn, up) == up /\ conn = "ready"

\* execute_query(query) for a statement the server accepts (valid) or not:
\* whether it returned rows or raised, and the connection it leaves
execute_query(conn, up, query, valid) ==
    LET c == IF conn = "none" THEN connect(conn, up).conn ELSE conn
    IN  IF c = "none" THEN [ok |-> FALSE, conn |-> c]
        ELSE IF c = "broken" \/ ~up THEN [ok |-> FALSE, conn |-> "broken"]
        ELSE IF c = "aborted" THEN [ok |-> FALSE, conn |-> c]
        ELSE IF query = EmptyStr THEN [ok |-> FALSE, conn |-> c]
        ELSE IF valid THEN [ok |-> TRUE, conn |-> c]
        ELSE [ok |-> FALSE, conn |-> "aborted"]

\* history: an execute_query call, as exec_log records it when it starts
Entry(path, query, checked, reconnects) ==
    [path |-> path, query |-> query, checked |-> checked,
     reconnects |-> reconnects, result |-> "running"]
\* history: the last call of the log has returned (ok) or raised
Finish(log, ok) ==
    [log EXCEPT ![Len(log)].result = IF ok THEN "ok" ELSE "raised"]

\* the dict appended to st.session_state['query_history']
HistoryEntry(question, query) == [question |-> question, sql_query |-> query]

\* list(reversed(seq))
RECURSIVE reversed(_)
reversed(seq) ==
    IF seq = <<>> THEN <<>> ELSE Append(reversed(Tail(seq)), Head(seq))

\* a slip: the tabs are made in storage order
history_items_StorageOrder(history) == history

\* history_items of "Display query history": one tab per item
history_items(history) == reversed(history)

\* "Display query history", at the end of the script: the tabs it renders
DisplayHistory(is_connected, history) ==
    IF is_connected /\ history # <<>> THEN history_items(history) ELSE <<>>

InitSessionState ==
    /\ llm_initialized = FALSE
    /\ connected = FALSE
    /\ query_history = <<>>
    /\ pressed = "none"
    /\ pc = "idle"
    /\ in_flight = {}
    /\ screen = {}
    /\ exec_log = <<>>
    /\ run_executes = 0
    /\ history_tabs = <<>>
    /\ schema_description = EmptyStr
    /\ schema_for_llm = EmptyStr
    /\ received = 0
    /\ full_response = EmptyStr
    /\ llama_pc = "idle"

\* "Initialize LLM Runtime Interface" is pressed
PressInitializeLLM ==
    /\ pc = "idle"
    /\ llm_initialized' = TRUE
    /\ pressed' = "initialize"
    /\ screen' = {}
    /\ run_executes' = 0
    /\ history_tabs' = DisplayHistory(connected, query_history)
    /\ UNCHANGED <<analyzer_vars, extract_vars, connection, app, db_up, connected,
                   query_history, pc, in_flight, exec_log,
                   stored_vars, llama_vars>>

\* the statement failures met while a connect analyzes the schema: none, the
\* columns query of the second table, the fetch of the rows of the first
ConnectFaults ==
    { NoFault, [table |-> 2, query |-> "columns"],
      [table |-> 1, query |-> "sample_rows"] }

\* the except clause and the error branches of the handler of "Connect to
\* Database": an error is shown, nothing is stored
ConnectError ==
    /\ screen' = { "connect_error" }
    /\ UNCHANGED <<analyzer_vars, connection, stored_vars>>

\* a slip: connected is set as soon as connect() succeeds, before the analysis
PressConnect_ConnectedFirst(filled, fault) ==
    /\ pc = "idle"
    /\ pressed' = "connect"
    /\ run_executes' = 0
    /\ IF ~filled \/ ~llm_initialized \/ ~connect("none", db_up).success
       THEN ConnectError /\ UNCHANGED connected
       ELSE \E r \in { analyze_schema(EmptyDict, catalog,
                                       connect("none", db_up).conn, fault) } :
            IF r.raised
            THEN ConnectError /\ connected' = TRUE
            ELSE \E info \in { SchemaInfo(catalog, r.st, r.sample_data) } :
                 /\ schema_info' = info
                 /\ column_semantics' = info.column_semantics
                 /\ last' = [op |-> "analyze_schema"]
                 /\ lookups' = CountLookups(EmptyDict, r.st.calls)
                 /\ labels' = CollectLabels(EmptyDict, r.st.calls)
                 /\ connection' = r.conn
                 /\ schema_description' = generate_schema_description(info).text
                 /\ schema_for_llm' = generate_schema_for_llm(info).text
                 /\ connected' = TRUE
                 /\ screen' = {}
                 /\ UNCHANGED catalog
    /\ history_tabs' = DisplayHistory(connected', query_history)
    /\ UNCHANGED <<extract_vars, app, db_up, llm_initialized, query_history, pc,
                   in_flight, exec_log, llama_vars>>

\* "Connect to Database" is pressed, with the connection details filled in or
\* not, and the statement named by fault fails during the analysis: a new
\* DatabaseAnalyzer connects, analyzes the schema and renders it, and only
\* then the analyzer, the two renderings and connected are stored; any
\* failure on the way shows an error and stores nothing
PressConnect(filled, fault) ==
    /\ pc = "idle"
    /\ pressed' = "connect"
    /\ run_executes' = 0
    /\ IF ~filled \/ ~llm_initialized \/ ~connect("none", db_up).success
       THEN ConnectError /\ UNCHANGED connected
       ELSE \E r \in { analyze_schema(EmptyDict, catalog,
                                       connect("none", db_up).conn, fault) } :
            IF r.raised
            THEN ConnectError /\ UNCHANGED connected
            ELSE \E info \in { SchemaInfo(catalog, r.st, r.sample_data) } :
                 /\ schema_info' = info
                 /\ column_semantics' = info.column_semantics
                 /\ last' = [op |-> "analyze_schema"]
                 /\ lookups' = CountLookups(EmptyDict, r.st.calls)
                 /\ labels' = CollectLabels(EmptyDict, r.st.calls)
                 /\ connection' = r.conn
                 /\ schema_description' = generate_schema_description(info).text
                 /\ schema_for_llm' = generate_schema_for_llm(info).text
                 /\ connected' = TRUE
                 /\ screen' = {}
                 /\ UNCHANGED catalog
    /\ history_tabs' = DisplayHistory(connected', query_history)
    /\ UNCHANGED <<extract_vars, app, db_up, llm_initialized, query_history, pc,
                   in_flight, exec_log, llama_vars>>

\* "Generate SQL" is pressed (the button is disabled until the LLM is
\* initialized and the database connected); with a question the script starts
\* the model call that generates the SQL
PressGenerate(question) ==
    /\ pc = "idle"
    /\ connected /\ llm_initialized
    /\ Len(exec_log) < MaxAttempts
    /\ pressed' = "generate"
    /\ screen' = {}
    /\ run_executes' = 0
    /\ IF question = EmptyStr
       THEN UNCHANGED <<pc, in_flight, extract_vars>>
       ELSE /\ pc' = "generating"
            /\ in_flight' = Begin(in_flight, "generate")
            /\ response' = EmptyStr
            /\ sql_block' = EmptyStr
            /\ sql_stripped' = EmptyStr
            /\ sql_query' = [returned |-> FALSE, value |-> EmptyStr]
    /\ history_tabs' = IF question = EmptyStr
                       THEN DisplayHistory(connected, query_history)
                       ELSE <<>>
    /\ UNCHANGED <<analyzer_vars, connection, app, db_up, llm_initialized,
                   connected, query_history, exec_log,
                   stored_vars, llama_vars>>

\* the model call returns raw_response and extract_sql_from_response runs; the
\* ui script stops on an empty extraction, the other shows the SQL and goes on
GenerateReturns(raw_response) ==
    /\ pc = "generating"
    /\ in_flight' = Await(in_flight, "generate")
    /\ response' = raw_response
    /\ sql_block' = SelectBlock(raw_response)
    /\ sql_stripped' = StripPrefix(sql_block')
    /\ sql_query' = [returned |-> TRUE, value |-> RemoveBackticks(sql_stripped')]
    /\ IF app = UiApp /\ sql_query'.value = EmptyStr
       THEN /\ screen' = screen \cup { "extraction_empty" }
            /\ pc' = "idle"
       ELSE /\ screen' = screen \cup { "generated_sql" }
            /\ pc' = "generated"
    /\ UNCHANGED <<analyzer_vars, connection, app, db_up, llm_initialized,
                   connected, query_history, pressed, exec_log, run_executes,
                   history_tabs, stored_vars, llama_vars>>

\* the model call raises (the LLM service is unreachable or times out): the
\* outermost except clause reports it
GenerateRaises ==
    /\ pc = "generating"
    /\ in_flight' = Await(in_flight, "generate")
    /\ screen' = screen \cup { "error_generating" }
    /\ pc' = "idle"
    /\ history_tabs' = DisplayHistory(connected, query_history)
    /\ UNCHANGED <<analyzer_vars, extract_vars, connection, app, db_up,
                   llm_initialized, connected, query_history, pressed, exec_log,
                   run_executes,
                   stored_vars, llama_vars>>

\* the script reaches "Executing query...": the ui script checks the connection
\* and reconnects once, then execute_query(sql_query) is called
StartExecute ==
    /\ pc = "generated"
    /\ LET checked == app = UiApp
           reconnect == checked /\ ~check_connection_health(connection, db_up)
           r == connect(connection, db_up)
       IN  IF reconnect /\ ~r.success
           THEN /\ screen' = screen \cup { "reconnect_failed" }
                /\ pc' = "idle"
                /\ UNCHANGED <<connection, in_flight, exec_log, run_executes>>
           ELSE /\ connection' = IF reconnect THEN r.conn ELSE connection
                /\ exec_log' = Append(exec_log,
                                      Entry("generated", sql_query.value, checked,
                                            IF reconnect THEN 1 ELSE 0))
                /\ run_executes' = run_executes + 1
                /\ in_flight' = Begin(in_flight, "execute")
                /\ pc' = "executing"
                /\ screen' = screen
    /\ UNCHANGED <<analyzer_vars, extract_vars, app, db_up, llm_initialized,
                   connected, query_history, pressed,
                   history_tabs, stored_vars, llama_vars>>

\* a slip: a query that failed is submitted again by the script itself
ExecuteReturns_AutoRetry ==
    /\ pc = "executing"
    /\ \E r \in { execute_query(connection, db_up, exec_log[Len(exec_log)].query,
                                DatabaseAccepts(exec_log[Len(exec_log)].query)) } :
          /\ connection' = r.conn
          /\ IF r.ok
             THEN /\ exec_log' = Finish(exec_log, r.ok)
                  /\ run_executes' = run_executes
                  /\ in_flight' = Begin(Await(in_flight, "execute"), "explain")
                  /\ pc' = "explaining"
                  /\ screen' = screen
             ELSE IF run_executes = 1
             THEN /\ exec_log' = Append(Finish(exec_log, r.ok),
                                        Entry("generated",
                                              exec_log[Len(exec_log)].query,
                                              FALSE, 0))
                  /\ run_executes' = run_executes + 1
                  /\ in_flight' = in_flight
                  /\ pc' = "executing"
                  /\ screen' = screen
             ELSE /\ exec_log' = Finish(exec_log, r.ok)
                  /\ run_executes' = run_executes
                  /\ in_flight' = Begin(Await(in_flight, "execute"), "explain")
                  /\ pc' = "explaining_error"
                  /\ screen' = screen \cup { "error_executing" }
    /\ UNCHANGED <<analyzer_vars, extract_vars, app, db_up, llm_initialized,
                   connected, query_history, pressed,
                   history_tabs, stored_vars, llama_vars>>

\* execute_query returns, and the model call that explains the results
\* starts, or it raises, the error is shown, and the model call that explains
\* the error starts
ExecuteReturns ==
    /\ pc = "executing"
    /\ \E r \in { execute_query(connection, db_up, exec_log[Len(exec_log)].query,
                                DatabaseAccepts(exec_log[Len(exec_log)].query)) } :
          /\ connection' = r.conn
          /\ exec_log' = Finish(exec_log, r.ok)
          /\ in_flight' = Begin(Await(in_flight, "execute"), "explain")
          /\ IF r.ok
             THEN /\ pc' = "explaining"
                  /\ screen' = screen
             ELSE /\ pc' = "explaining_error"
                  /\ screen' = screen \cup { "error_executing" }
    /\ UNCHANGED <<analyzer_vars, extract_vars, app, db_up, llm_initialized,
                   connected, query_history, pressed, run_executes,
                   history_tabs, stored_vars, llama_vars>>

\* the explanation arrives: the answer is shown and the history entry appended
ExplainReturns ==
    /\ pc = "explaining"
    /\ in_flight' = Await(in_flight, "explain")
    /\ screen' = screen \cup { "answer" }
    /\ query_history' = Append(query_history,
                               HistoryEntry("question", sql_query.value))
    /\ pc' = "idle"
    /\ history_tabs' = DisplayHistory(connected, query_history')
    /\ UNCHANGED <<analyzer_vars, extract_vars, connection, app, db_up,
                   llm_initialized, connected, pressed, exec_log, run_executes,
                   stored_vars, llama_vars>>

\* the model call that explains the results raises inside the try block of the
\* execution: its except clause reports an execution error and starts the
\* model call that explains the error
ExplainRaises ==
    /\ pc = "explaining"
    /\ in_flight' = Begin(Await(in_flight, "explain"), "explain")
    /\ screen' = screen \cup { "error_executing" }
    /\ pc' = "explaining_error"
    /\ UNCHANGED <<analyzer_vars, extract_vars, connection, app, db_up,
                   llm_initialized, connected, query_history, pressed, exec_log,
                   run_executes,
                   history_tabs, stored_vars, llama_vars>>

\* "Execute Fixed Query" has returned True: the ui script checks the connection
\* and reconnects once, execute_query(fixed_query) runs, and a success is
\* appended to the history
ExecuteFixed(fixed_query, valid) ==
    LET checked == app = UiApp
        reconnect == checked /\ ~check_connection_health(connection, db_up)
        c == connect(connection, db_up)
        conn == IF reconnect THEN c.conn ELSE connection
        r == execute_query(conn, db_up, fixed_query, valid)
    IN  IF reconnect /\ ~c.success
        THEN /\ screen' = screen \cup { "error_analysis", "fix_option",
                                        "reconnect_failed" }
             /\ UNCHANGED <<connection, exec_log, run_executes, query_history,
                            history_tabs>>
        ELSE /\ connection' = r.conn
             /\ exec_log' = Finish(Append(exec_log,
                                          Entry("fixed", fixed_query, checked,
                                                IF reconnect THEN 1 ELSE 0)),
                                   r.ok)
             /\ run_executes' = run_executes + 1
             /\ query_history' =
                    IF r.ok
                    THEN Append(query_history,
                                HistoryEntry("FIXED: question", fixed_query))
                    ELSE query_history
             /\ screen' = screen \cup { "error_analysis", "fix_option",
                                        IF r.ok THEN "fixed_ok" ELSE "fixed_error" }
             /\ history_tabs' = DisplayHistory(connected, query_history')

\* the explanation of the error arrives: it is shown with the "Fix the Query"
\* text area, filled with sql_query, and the "Execute Fixed Query" button
ErrorExplainReturns ==
    /\ pc = "explaining_error"
    /\ in_flight' = Await(in_flight, "explain")
    /\ pc' = "idle"
    /\ IF pressed = "fixed"
       THEN ExecuteFixed(sql_query.value, DatabaseAccepts(sql_query.value))
       ELSE /\ screen' = screen \cup { "error_analysis", "fix_option" }
            /\ history_tabs' = DisplayHistory(connected, query_history)
            /\ UNCHANGED <<connection, exec_log, run_executes, query_history>>
    /\ UNCHANGED <<analyzer_vars, extract_vars, app, db_up, llm_initialized,
                   connected, pressed,
                   stored_vars, llama_vars>>

\* the model call that explains the error raises: the error leaves the except
\* clause of the execution and the outermost except clause reports it
ErrorExplainRaises ==
    /\ pc = "explaining_error"
    /\ in_flight' = Await(in_flight, "explain")
    /\ screen' = screen \cup { "error_generating" }
    /\ pc' = "idle"
    /\ history_tabs' = DisplayHistory(connected, query_history)
    /\ UNCHANGED <<analyzer_vars, extract_vars, connection, app, db_up,
                   llm_initialized, connected, query_history, pressed, exec_log,
                   run_executes,
                   stored_vars, llama_vars>>

\* "Execute Fixed Query" is pressed: the script runs again and "Generate SQL"
\* returns False in this run, so the block that holds the text area and the
\* button is not entered
PressExecuteFixed ==
    /\ pc = "idle"
    /\ "fix_option" \in screen
    /\ pressed' = "fixed"
    /\ screen' = {}
    /\ run_executes' = 0
    /\ history_tabs' = DisplayHistory(connected, query_history)
    /\ UNCHANGED <<analyzer_vars, extract_vars, connection, app, db_up,
                   llm_initialized, connected, query_history, pc, in_flight,
                   exec_log,
                   stored_vars, llama_vars>>

\* "Execute Manual Query" is pressed (the button is rendered when connected)
PressExecuteManual(manual_query) ==
    /\ pc = "idle"
    /\ connected
    /\ Len(exec_log) < MaxAttempts
    /\ pressed' = "manual"
    /\ IF manual_query = EmptyStr
       THEN /\ screen' = { "enter_query" }
            /\ run_executes' = 0
            /\ UNCHANGED <<pc, in_flight, exec_log>>
       ELSE /\ screen' = {}
            /\ run_executes' = 1
            /\ exec_log' = Append(exec_log, Entry("manual", manual_query, FALSE, 0))
            /\ in_flight' = Begin(in_flight, "execute")
            /\ pc' = "executing_manual"
    /\ history_tabs' = IF manual_query = EmptyStr
                       THEN DisplayHistory(connected, query_history)
                       ELSE <<>>
    /\ UNCHANGED <<analyzer_vars, extract_vars, connection, app, db_up,
                   llm_initialized, connected, query_history,
                   stored_vars, llama_vars>>

\* execute_query(manual_query) returns, and the history entry is appended, or
\* it raises, and the error is shown
ManualReturns ==
    /\ pc = "executing_manual"
    /\ \E r \in { execute_query(connection, db_up, exec_log[Len(exec_log)].query,
                                DatabaseAccepts(exec_log[Len(exec_log)].query)) } :
          /\ connection' = r.conn
          /\ exec_log' = Finish(exec_log, r.ok)
          /\ IF r.ok
             THEN /\ query_history' =
                        Append(query_history,
                               HistoryEntry("MANUAL QUERY",
                                            exec_log[Len(exec_log)].query))
                  /\ screen' = screen \cup { "manual_ok" }
             ELSE /\ query_history' = query_history
                  /\ screen' = screen \cup { "manual_error" }
    /\ in_flight' = Await(in_flight, "execute")
    /\ pc' = "idle"
    /\ history_tabs' = DisplayHistory(connected, query_history')
    /\ UNCHANGED <<analyzer_vars, extract_vars, app, db_up, llm_initialized,
                   connected, pressed, run_executes,
                   stored_vars, llama_vars>>

\* "Use this query" of a history tab is pressed: reuse_query is set, the script
\* runs again and moves it to st.session_state['manual_query']
PressUseQuery ==
    /\ pc = "idle"
    /\ connected
    /\ query_history # <<>>
    /\ pressed' = "use_query"
    /\ screen' = {}
    /\ run_executes' = 0
    /\ history_tabs' = DisplayHistory(connected, query_history)
    /\ UNCHANGED <<analyzer_vars, extract_vars, connection, app, db_up,
                   llm_initialized, connected, query_history, pc, in_flight,
                   exec_log,
                   stored_vars, llama_vars>>

\* the database server becomes unreachable, or reachable again
DatabaseGoesDown ==
    /\ db_up
    /\ db_up' = FALSE
    /\ UNCHANGED <<analyzer_vars, extract_vars, connection, app, llm_initialized,
                   connected, query_history, pressed, pc, in_flight, screen,
                   exec_log, run_executes,
                   history_tabs, stored_vars, llama_vars>>

DatabaseComesUp ==
    /\ ~db_up
    /\ db_up' = TRUE
    /\ UNCHANGED <<analyzer_vars, extract_vars, connection, app, llm_initialized,
                   connected, query_history, pressed, pc, in_flight, screen,
                   exec_log, run_executes,
                   history_tabs, stored_vars, llama_vars>>

------------------------------------------------------------------------------
(* Inputs                                                                   *)

NoComment == EmptyStr
HandComment == <<"S","e","t"," ","b","y"," ","t","h","e"," ","o","w","n","e","r">>

\* the column names infer_column_semantics is tried on
ColumnNames ==
    {
      <<"c","r","e","a","t","e","d","_","a","t">>, <<"o","r","d","e","r","_","d","a","t","e","_","c","r","e","a","t","e","d">>,
      <<"l","a","s","t","_","u","p","d","a","t","e","d">>, <<"u","p","d","a","t","e","d","_","a","t","_","s","t","a","r","t">>,
      <<"d","e","l","e","t","e","d","_","a","t">>, <<"d","e","l","i","v","e","r","y","_","d","a","t","e">>,
      <<"d","e","l","i","v","e","r","y","_","d","a","t","e","_","d","u","e">>, <<"s","h","i","p","p","e","d","_","a","t">>,
      <<"d","i","s","p","a","t","c","h","_","d","a","t","e","_","e","n","d">>, <<"o","r","d","e","r","_","d","a","t","e">>, <<"O","r","d","e","r","_","D","a","t","e">>,
      <<"o","r","d","e","r","e","d","_","a","t">>, <<"p","a","y","m","e","n","t","_","d","a","t","e">>, <<"p","a","i","d","_","a","t">>,
      <<"d","u","e","_","d","a","t","e">>, <<"s","t","a","r","t","_","d","a","t","e">>, <<"e","n","d","_","d","a","t","e">>,
      <<"s","t","a","r","t","_","e","n","d">>, <<"p","e","n","d","i","n","g">>, <<"b","i","r","t","h","d","a","y">>, <<"p","r","i","c","e">>,
      <<"u","n","i","t","_","c","o","s","t">>, <<"a","m","o","u","n","t">>, <<"t","o","t","a","l","_","p","r","i","c","e">>,
      <<"q","u","a","n","t","i","t","y">>, <<"c","o","u","n","t">>, <<"i","t","e","m","_","n","u","m","b","e","r">>,
      <<"d","i","s","c","o","u","n","t">>, <<"d","i","s","c","o","u","n","t","_","p","c","t">>, <<"t","o","t","a","l">>,
      <<"t","o","t","a","l","_","c","o","u","n","t">>, <<"i","d">>, <<"I","D">>, <<"u","s","e","r","_","i","d">>,
      <<"U","s","e","r","_","I","D">>, <<"u","s","e","r","_","i","d","_","r","e","f","_","i","d">>, <<"_","i","d">>,
      <<"o","r","d","e","r","_","k","e","y">>, <<"u","u","i","d">>, <<"g","u","i","d">>, <<"p","a","i","d">>,
      <<"w","i","d","t","h">>, <<"i","s","_","a","c","t","i","v","e">>, <<"I","s","_","A","c","t","i","v","e">>,
      <<"h","a","s","_","e","m","a","i","l">>, <<"a","n","a","l","y","s","i","s","_","d","o","n","e">>, <<"t","h","i","s","_","i","s","_","d","o","n","e">>,
      <<"a","c","t","i","v","e">>, <<"e","n","a","b","l","e","d">>, <<"d","e","l","e","t","e","d">>, <<"s","t","a","t","u","s">>,
      <<"s","t","a","t","e">>, <<"c","o","n","d","i","t","i","o","n">>, <<"e","s","t","a","t","e">>, <<"n","a","m","e">>,
      <<"s","t","a","t","u","s","_","n","a","m","e">>, <<"d","e","s","c","r","i","p","t","i","o","n">>, <<"s","h","o","r","t","_","d","e","s","c">>,
      <<"c","o","d","e">>, <<"s","t","a","t","u","s","_","c","o","d","e">>, <<"a","d","d","r","e","s","s">>, <<"e","m","a","i","l">>,
      <<"e","m","a","i","l","_","a","d","d","r","e","s","s">>, <<"p","h","o","n","e">>, <<"p","h","o","n","e","_","c","o","d","e">>,
      <<"n","o","t","e","s">>, <<"e","x","t","e","r","n","a","l","_","i","d">>, <<"a","p","i","_","k","e","y">>
    }

\* the declared types it is tried on: some of each category, and two that are
\* in no category
DeclaredTypes ==
    {
      <<"d","a","t","e">>, <<"t","i","m","e","s","t","a","m","p">>,
      <<"t","i","m","e","s","t","a","m","p"," ","w","i","t","h","o","u","t"," ","t","i","m","e"," ","z","o","n","e">>, <<"i","n","t","e","g","e","r">>,
      <<"n","u","m","e","r","i","c">>, <<"b","o","o","l","e","a","n">>, <<"t","e","x","t">>,
      <<"c","h","a","r","a","c","t","e","r"," ","v","a","r","y","i","n","g">>, <<"u","u","i","d">>
    }

StoredComments == { NoComment, HandComment, <<" ">> }

\* the pieces raw model responses are made of
Pieces ==
    << Fence, SqlTag, <<"\n">>, <<"S","E","L","E","C","T"," ","1",";">>, <<"S","Q","L"," ","q","u","e","r","y">>, <<"Q","u","e","r","y">>, <<":">>,
       <<Backtick>>, <<Backtick,Backtick,Backtick,"s","q","l","\n","S","E","L","E","C","T"," ","2",";","\n",Backtick,Backtick,Backtick>> >>

RECURSIVE Texts(_)
Texts(n) ==
    IF n = 0 THEN { <<>> }
    ELSE LET shorter == Texts(n - 1)
         IN  shorter \cup { t \o Pieces[k] : t \in shorter, k \in 1..Len(Pieces) }

\* the raw responses of the specification's examples
ExampleResponses ==
    { <<"H","e","r","e",":","\n",Backtick,Backtick,Backtick,"s","q","l","\n","S","E","L","E","C","T"," ","1",";","\n",Backtick,Backtick,Backtick>>, <<"S","Q","L",":"," ","S","E","L","E","C","T"," ","1",";">>, EmptyStr }

\* a response with text around two different code blocks
TwoBlockResponse == <<"T","r","y",":","\n",Backtick,Backtick,Backtick,"s","q","l","\n","S","E","L","E","C","T"," ","1",";","\n",Backtick,Backtick,Backtick,"\n","o","r",":","\n",Backtick,Backtick,Backtick,"\n","S","E","L","E","C","T"," ","2",";","\n",Backtick,Backtick,Backtick,"\n","D","o","n","e">>

RawResponses == Texts(MaxPieces) \cup ExampleResponses \cup { TwoBlockResponse }

------------------------------------------------------------------------------
(* Specifications                                                           *)

NotReturned == [returned |-> FALSE, value |-> EmptyStr]

InitAnalyzer ==
    /\ column_semantics = EmptyDict
    /\ schema_info = EmptyDict
    /\ last = [op |-> "constructed"]
    /\ lookups = EmptyDict
    /\ labels = EmptyDict

InitSessionIdle ==
    /\ stream = <<>>
    /\ connection = "none"
    /\ app = CoreApp
    /\ db_up = TRUE
    /\ InitSessionState

InitExtractIdle ==
    /\ response = EmptyStr
    /\ sql_block = EmptyStr
    /\ sql_stripped = EmptyStr
    /\ sql_query = NotReturned

\* a nullable column without default, and a table without comment or keys
Column(name, type, comment) ==
    [name |-> name, type |-> type, comment |-> comment, nullable |-> <<"Y","E","S">>,
     default |-> None]
Table(name, columns, rows) ==
    [name |-> name, columns |-> columns, rows |-> rows, comment |-> EmptyStr,
     primary_key |-> <<>>, foreign_keys |-> <<>>]

\* An analyzer on a database whose catalog changes under it.
Init ==
    /\ catalog =
         << Table(<<"o","r","d","e","r","s">>,
                   << Column(<<"o","r","d","e","r","_","d","a","t","e">>, <<"t","i","m","e","s","t","a","m","p">>, NoComment) >>, 1),
            Table(<<"c","u","s","t","o","m","e","r","s">>,
                   << Column(<<"n","o","t","e">>, <<"t","e","x","t">>, NoComment) >>, 1) >>
    /\ InitAnalyzer
    /\ InitExtractIdle
    /\ InitSessionIdle

Cells == UNION { { <<i, j>> : j \in 1..Len(catalog[i].columns) } : i \in 1..Len(catalog) }

\* a caller asks for a column of the catalog, with its declared type
InferDeclared ==
    \E ij \in Cells :
        InferCall(catalog[ij[1]].name, catalog[ij[1]].columns[ij[2]].name,
                  catalog[ij[1]].columns[ij[2]].type)

AnalyzeRaises == \E n \in 1..Len(catalog) : AnalyzeSchemaRaises(n)

CommentOn ==
    \E ij \in Cells, comment \in { NoComment, HandComment } :
        CommentOnColumn(ij[1], ij[2], comment)

Next == InferDeclared \/ AnalyzeSchema \/ AnalyzeRaises \/ CommentOn

Spec == Init /\ [][Next]_vars

\* infer_column_semantics as a function of its inputs: a new analyzer on a
\* catalog of one column, asked for that column with its declared type.
InitInfer ==
    /\ \E name \in ColumnNames, type \in DeclaredTypes, comment \in StoredComments :
          catalog = << Table(<<"o","r","d","e","r","s">>,
                              << Column(name, type, comment) >>, 1) >>
    /\ InitAnalyzer
    /\ InitExtractIdle
    /\ InitSessionIdle

NextInfer == InferDeclared

SpecInfer == InitInfer /\ [][NextInfer]_vars

\* extract_sql_from_response as a function of the raw response.
InitExtract ==
    /\ response \in RawResponses
    /\ sql_block = EmptyStr
    /\ sql_stripped = EmptyStr
    /\ sql_query = NotReturned
    /\ catalog = <<>>
    /\ InitAnalyzer
    /\ InitSessionIdle

NextExtract == ExtractSql

SpecExtract == InitExtract /\ [][NextExtract]_vars

\* analyze_schema when one of its statements fails: a new analyzer on one of
\* the catalogs made of the tables below.
TablePool ==
    << Table(<<"o","r","d","e","r","s">>,
              << Column(<<"o","r","d","e","r","_","d","a","t","e">>, <<"t","i","m","e","s","t","a","m","p">>, NoComment) >>, 2),
       Table(<<"c","u","s","t","o","m","e","r","s">>,
              << Column(<<"n","o","t","e">>, <<"t","e","x","t">>, NoComment) >>, 0),
       Table(<<"o","r","d","e","r"," ","i","t","e","m","s">>,
              << Column(<<"p","r","i","c","e">>, <<"n","u","m","e","r","i","c">>, HandComment) >>, 5) >>

BuildCatalogs ==
    { cat \in UNION { [1..k -> 1..Len(TablePool)] : k \in 2..MaxTables } :
        \A a, b \in DOMAIN cat : a # b => cat[a] # cat[b] }

InitBuild ==
    /\ \E cat \in BuildCatalogs : catalog = [i \in DOMAIN cat |-> TablePool[cat[i]]]
    /\ InitAnalyzer
    /\ InitExtractIdle
    /\ InitSessionIdle

AnalyzeFault == \E fault \in Faults(catalog) : AnalyzeSchemaFault(fault)

NextBuild == AnalyzeFault \/ Connect

SpecBuild == InitBuild /\ [][NextBuild]_vars

\* The renderers on the snapshots of databases of customers and orders, with
\* and without rows, and with foreign keys between labelled and unlabelled
\* columns.
Customers(rows) ==
    [Table(<<"c","u","s","t","o","m","e","r","s">>,
           << [Column(<<"i","d">>, <<"i","n","t","e","g","e","r">>, NoComment) EXCEPT !.nullable = <<"N","O">>],
              Column(<<"r","e","f">>, <<"i","n","t","e","g","e","r">>, NoComment),
              [Column(<<"n","a","m","e">>, <<"t","e","x","t">>, NoComment) EXCEPT !.default = <<"'","'">>] >>,
           rows)
     EXCEPT !.comment = <<"P","e","o","p","l","e"," ","w","h","o"," ","o","r","d","e","r">>, !.primary_key = << <<"i","d">> >>]
Orders(rows, foreign_keys) ==
    [Table(<<"o","r","d","e","r","s">>,
           << Column(<<"c","u","s","t","o","m","e","r","_","i","d">>, <<"i","n","t","e","g","e","r">>, NoComment),
              Column(<<"o","w","n","e","r">>, <<"i","n","t","e","g","e","r">>, NoComment),
              Column(<<"o","r","d","e","r","_","d","a","t","e">>, <<"t","i","m","e","s","t","a","m","p">>, NoComment),
              Column(<<"d","a","y">>, <<"d","a","t","e">>, NoComment) >>,
           rows)
     EXCEPT !.foreign_keys = foreign_keys]

ForeignKeyPool ==
    { [column |-> c, foreign_table |-> <<"c","u","s","t","o","m","e","r","s">>, foreign_column |-> f] :
        c \in { <<"c","u","s","t","o","m","e","r","_","i","d">>, <<"o","w","n","e","r">> }, f \in { <<"i","d">>, <<"r","e","f">> } }
ForeignKeyLists ==
    { fks \in UNION { [1..k -> ForeignKeyPool] : k \in 0..MaxRelationships } :
        \A a, b \in DOMAIN fks : a # b => fks[a] # fks[b] }

RenderCatalogs ==
    { <<>> }
    \cup { << Customers(rows) >> : rows \in { 0, 3 } }
    \cup { << Orders(1, fks), Customers(rows) >> :
              rows \in { 0, 3 }, fks \in ForeignKeyLists }
    \cup { << Customers(3), Orders(0, fks) >> : fks \in ForeignKeyLists }

InitRender ==
    /\ catalog \in RenderCatalogs
    /\ InitAnalyzer
    /\ InitExtractIdle
    /\ InitSessionIdle

NextRender == AnalyzeSchema \/ GenerateSchemaDescription \/ GenerateSchemaForLlm

SpecRender == InitRender /\ [][NextRender]_vars

\* get_llama_response on the responses of an LLM service: events with and
\* without content, the final event, and chunks that are no single event.
Contents == { EmptyStr, <<"S","E","L","E","C","T">>, <<" ","1",";">> }
WellFormedChunks == { Event(content, stop) : content \in Contents, stop \in BOOLEAN }
\* the first part of an event cut in two, and the second part; two events in
\* one chunk; an event without the key content, and one without the key
\* stop; an error page
MalformedChunks ==
    { <<"d","a","t","a",":"," ","{","\"","c","o","n","t","e","n","t","\"",":","\"","S","E","L">>,
      <<"E","C","T","\"",",","\"","s","t","o","p","\"",":","f","a","l","s","e","}","\n","\n">>,
      Event(<<"S","E","L","E","C","T">>, FALSE) \o Event(<<" ","1",";">>, FALSE),
      <<"d","a","t","a",":"," ","{","\"","s","t","o","p","\"",":","f","a","l","s","e","}","\n","\n">>,
      <<"d","a","t","a",":"," ","{","\"","c","o","n","t","e","n","t","\"",":","\""," ","1",";","\"","}","\n","\n">>,
      <<"I","n","t","e","r","n","a","l"," ","S","e","r","v","e","r"," ","E","r","r","o","r">> }
Chunks == WellFormedChunks \cup MalformedChunks
Streams == UNION { [1..n -> Chunks] : n \in 0..MaxChunks }

InitStream ==
    /\ stream \in Streams
    /\ catalog = <<>>
    /\ InitAnalyzer
    /\ InitExtractIdle
    /\ connection = "none"
    /\ app = CoreApp
    /\ db_up = TRUE
    /\ InitSessionState

NextStream == StartCompletion \/ ReceiveChunk \/ ResponseEnds \/ TransportFails

SpecStream == InitStream /\ [][NextStream]_vars

\* C28: the snapshot is built atomically: when analyze_schema raises part-way,
\* schema_info and column_semantics are exactly what they were before the call.
C28_FailedBuildChangesNothing ==
    [][last'.op = "analyze_schema raised"
          => schema_info' = schema_info /\ column_semantics' = column_semantics]_vars

\* the columns of a snapshot, as pairs of table index and column index
SnapshotCells(info) ==
    UNION { { <<i, j>> : j \in 1..Len(info.tables[i].columns) } :
            i \in 1..Len(info.tables) }
SnapshotColumn(info, ij) == info.tables[ij[1]].columns[ij[2]]
SnapshotKey(info, ij) ==
    ColumnKey(info.tables[ij[1]].name, SnapshotColumn(info, ij).name)

\* C29: after every successful analyze_schema the "table.column" -> label map
\* of the snapshot and the labels of its columns agree: a key is in the map
\* exactly when that column is in the snapshot with a label, the two labels
\* are equal, and no column carries an empty label.
C29_MapAndColumnLabelsAgree ==
    last.op = "analyze_schema" =>
        LET map == schema_info.column_semantics
            cells == SnapshotCells(schema_info)
            Labelled(ij) == "semantics" \in DOMAIN SnapshotColumn(schema_info, ij)
        IN  /\ \A ij \in cells :
                  IF Labelled(ij)
                  THEN /\ SnapshotColumn(schema_info, ij).semantics # EmptyStr
                       /\ SnapshotKey(schema_info, ij) \in DOMAIN map
                       /\ map[SnapshotKey(schema_info, ij)]
                             = SnapshotColumn(schema_info, ij).semantics
                  ELSE SnapshotKey(schema_info, ij) \notin DOMAIN map
            /\ \A key \in DOMAIN map :
                  \E ij \in cells :
                      Labelled(ij) /\ SnapshotKey(schema_info, ij) = key

\* a build has returned a snapshot with a column that has a label and a column
\* that has none
C29_Witness ==
    /\ last.op = "analyze_schema"
    /\ \E ij \in SnapshotCells(schema_info) :
          "semantics" \in DOMAIN SnapshotColumn(schema_info, ij)
    /\ \E ij \in SnapshotCells(schema_info) :
          "semantics" \notin DOMAIN SnapshotColumn(schema_info, ij)

\* what the session stores of a connect: connected, the analyzer (its
\* snapshot, its cache and its connection) and the two renderings
connect_vars ==
    <<connected, schema_info, column_semantics, connection, stored_vars>>
\* the step is a press of "Connect to Database" that ended in an error
ConnectFailed == pressed' = "connect" /\ screen' = { "connect_error" }
\* the step is a run of "Connect to Database" that connected and analyzed
ConnectSucceeded ==
    /\ pressed' = "connect" /\ screen' = {}
    /\ llm_initialized
    /\ connected'
    /\ schema_info' # EmptyDict
    /\ ~MissingKey(schema_info', DescriptionKeys \cup BriefKeys)
    /\ column_semantics' = schema_info'.column_semantics

\* C30: in every session state connected implies llm_initialized and that the
\* stored analyzer and the two stored renderings come from one successful
\* connect-and-analyse (the renderings are those of the stored snapshot);
\* a connect that fails, or whose analysis fails, changes none of them, and
\* only a successful connect stores them.
C30_ConnectedMeansAnalyzed ==
    /\ [](connected =>
            /\ llm_initialized
            /\ schema_info # EmptyDict
            /\ schema_description = generate_schema_description(schema_info).text
            /\ schema_for_llm = generate_schema_for_llm(schema_info).text)
    /\ [](~connected =>
            schema_info = EmptyDict /\ stored_vars = <<EmptyStr, EmptyStr>>)
    /\ [][ConnectFailed => UNCHANGED connect_vars]_vars
    /\ [][<<connected, schema_info, stored_vars>>' # <<connected, schema_info, stored_vars>>
             => ConnectSucceeded]_vars

\* a second connect whose analysis failed, after a first one that succeeded:
\* the session is connected and shows the error of the second
C30_Witness ==
    /\ connected
    /\ pressed = "connect"
    /\ screen = { "connect_error" }
    /\ db_up /\ llm_initialized
    /\ schema_description # EmptyStr

\* the chunks that are one whole server event, by the event they carry
IsEvent(chunk) == \E content \in Contents, stop \in BOOLEAN : chunk = Event(content, stop)
IsStopSignal(chunk) == \E content \in Contents : chunk = Event(content, TRUE)
ContentOf(chunk) == CHOOSE content \in Contents : \E stop \in BOOLEAN : chunk = Event(content, stop)
\* the chunks of a stream before the first stop signal, all when it has none
BeforeStop(chunks) ==
    IF \E n \in 1..Len(chunks) : IsStopSignal(chunks[n])
    THEN SubSeq(chunks, 1, (CHOOSE n \in 1..Len(chunks) :
                              /\ IsStopSignal(chunks[n])
                              /\ \A m \in 1..(n - 1) : ~IsStopSignal(chunks[m])) - 1)
    ELSE chunks
RECURSIVE ConcatContents(_)
ConcatContents(chunks) ==
    IF chunks = <<>> THEN EmptyStr
    ELSE (IF IsEvent(Head(chunks)) THEN ContentOf(Head(chunks)) ELSE EmptyStr)
         \o ConcatContents(Tail(chunks))

Question == <<"H","o","w"," ","m","a","n","y"," ","o","r","d","e","r","s","?">>
ModelResponses == { EmptyStr, <<Backtick,Backtick,Backtick,"s","q","l","\n","S","E","L","E","C","T"," ","1",";","\n",Backtick,Backtick,Backtick>>, <<"S","Q","L",":"," ","S","E","L","E","C"," ","1",";">> }
ManualTexts == { EmptyStr, <<"S","E","L","E","C","T"," ","1",";">>, <<"S","E","L","E","C"," ","1",";">> }

InitSession ==
    /\ catalog =
         << Table(<<"o","r","d","e","r","s">>,
                   << Column(<<"o","r","d","e","r","_","d","a","t","e">>, <<"t","i","m","e","s","t","a","m","p">>, NoComment) >>, 1),
            Table(<<"c","u","s","t","o","m","e","r","s">>,
                   << Column(<<"n","o","t","e">>, <<"t","e","x","t">>, NoComment) >>, 1) >>
    /\ InitAnalyzer
    /\ InitExtractIdle
    /\ stream = <<>>
    /\ connection = "none"
    /\ app \in Apps
    /\ db_up = TRUE
    /\ InitSessionState

Connecting == \E filled \in BOOLEAN, fault \in ConnectFaults : PressConnect(filled, fault)
Generating == \E question \in { EmptyStr, Question } : PressGenerate(question)
Generated == \E raw_response \in ModelResponses : GenerateReturns(raw_response)
ManualQuery == \E manual_query \in ManualTexts : PressExecuteManual(manual_query)

NextSession ==
    \/ PressInitializeLLM \/ Connecting
    \/ Generating \/ Generated \/ GenerateRaises
    \/ StartExecute \/ ExecuteReturns
    \/ ExplainReturns \/ ExplainRaises
    \/ ErrorExplainReturns \/ ErrorExplainRaises
    \/ PressExecuteFixed
    \/ ManualQuery \/ ManualReturns
    \/ PressUseQuery
    \/ DatabaseGoesDown \/ DatabaseComesUp

SpecSession == InitSession /\ [][NextSession]_vars

------------------------------------------------------------------------------
(* Properties of infer_column_semantics, under SpecInfer                    *)

\* the one column of the catalog, and the call made for it
TheColumn == catalog[1].columns[1]
Asked == last.op = "infer"
AskedUncommented == Asked /\ TheColumn.comment = EmptyStr
NameLower == Lower(TheColumn.name)

\* C1: if the comment store holds a non-empty comment for the column,
\* infer_column_semantics returns that comment unchanged, whatever the column
\* name and the declared type are; no name/type rule is applied.
C1_CommentWins ==
    (Asked /\ TheColumn.comment # EmptyStr)
        => /\ last.ret = TheColumn.comment
           /\ column_semantics[ColumnKey(last.table, last.column)] = TheColumn.comment

\* C1 happens: a commented column whose name and type match a pattern rule
C1_Witness ==
    /\ Asked
    /\ TheColumn.name = <<"o","r","d","e","r","_","d","a","t","e">>
    /\ TheColumn.type = <<"t","i","m","e","s","t","a","m","p">>
    /\ TheColumn.comment = HandComment
    /\ last.ret = HandComment

\* the date/time pattern groups in the order the claim gives them
DateGroups ==
    << [patterns |-> date_created_patterns,
        label |-> <<"T","i","m","e","s","t","a","m","p"," ","w","h","e","n"," ","t","h","e"," ","r","e","c","o","r","d"," ","w","a","s"," ","c","r","e","a","t","e","d">>],
       [patterns |-> date_updated_patterns,
        label |-> <<"T","i","m","e","s","t","a","m","p"," ","w","h","e","n"," ","t","h","e"," ","r","e","c","o","r","d"," ","w","a","s"," ","l","a","s","t"," ","u","p","d","a","t","e","d">>],
       [patterns |-> date_deleted_patterns,
        label |-> <<"T","i","m","e","s","t","a","m","p"," ","w","h","e","n"," ","t","h","e"," ","r","e","c","o","r","d"," ","w","a","s"," ","d","e","l","e","t","e","d"," ","(","f","o","r"," ","s","o","f","t"," ","d","e","l","e","t","e","s",")">>],
       [patterns |-> delivery_patterns,
        label |-> <<"D","a","t","e"," ","w","h","e","n"," ","i","t","e","m","s"," ","w","e","r","e"," ","a","c","t","u","a","l","l","y"," ","d","e","l","i","v","e","r","e","d"," ","t","o"," ","t","h","e"," ","c","u","s","t","o","m","e","r">>],
       [patterns |-> dispatch_patterns,
        label |-> <<"D","a","t","e"," ","w","h","e","n"," ","i","t","e","m","s"," ","w","e","r","e"," ","d","i","s","p","a","t","c","h","e","d"," ","f","r","o","m"," ","t","h","e"," ","w","a","r","e","h","o","u","s","e","/","f","a","c","i","l","i","t","y">>],
       [patterns |-> order_patterns,
        label |-> <<"D","a","t","e"," ","w","h","e","n"," ","t","h","e"," ","o","r","d","e","r"," ","w","a","s"," ","p","l","a","c","e","d">>],
       [patterns |-> payment_patterns,
        label |-> <<"D","a","t","e"," ","w","h","e","n"," ","p","a","y","m","e","n","t"," ","w","a","s"," ","r","e","c","e","i","v","e","d">>],
       [patterns |-> << <<"d","u","e">> >>, label |-> <<"D","u","e"," ","d","a","t","e"," ","o","r"," ","d","e","a","d","l","i","n","e">>],
       [patterns |-> << <<"s","t","a","r","t">> >>, label |-> <<"S","t","a","r","t"," ","d","a","t","e"," ","o","f"," ","a","n"," ","e","v","e","n","t"," ","o","r"," ","p","e","r","i","o","d">>],
       [patterns |-> << <<"e","n","d">> >>, label |-> <<"E","n","d"," ","d","a","t","e"," ","o","f"," ","a","n"," ","e","v","e","n","t"," ","o","r"," ","p","e","r","i","o","d">>] >>

\* the first group of an ordered rule table that the lower-cased name matches
Matches(groups, g) == AnyIn(groups[g].patterns, NameLower)
FirstMatch(groups, g) ==
    Matches(groups, g) /\ \A h \in 1..(g - 1) : ~Matches(groups, h)

\* C4: for a column of date/time type with no stored comment, the label is the
\* fixed label of the first pattern group its lower-cased name matches, in the
\* order created, updated, soft-deleted, delivered, dispatched, ordered, paid,
\* due, start, end; order_date and delivery_date get two distinct labels.
C4_DateFirstGroupWins ==
    (AskedUncommented /\ TheColumn.type \in DateTypes)
        => /\ \A g \in 1..Len(DateGroups) :
                FirstMatch(DateGroups, g) => last.ret = DateGroups[g].label
           /\ TheColumn.name = <<"o","r","d","e","r","_","d","a","t","e">>
                => last.ret = <<"D","a","t","e"," ","w","h","e","n"," ","t","h","e"," ","o","r","d","e","r"," ","w","a","s"," ","p","l","a","c","e","d">>
           /\ TheColumn.name = <<"d","e","l","i","v","e","r","y","_","d","a","t","e">>
                => last.ret = <<"D","a","t","e"," ","w","h","e","n"," ","i","t","e","m","s"," ","w","e","r","e"," ","a","c","t","u","a","l","l","y"," ","d","e","l","i","v","e","r","e","d"," ","t","o"," ","t","h","e"," ","c","u","s","t","o","m","e","r">>

\* C4 happens: a date column whose name matches two groups gets the first
C4_Witness ==
    /\ AskedUncommented
    /\ TheColumn.type \in DateTypes
    /\ \E g, h \in 1..Len(DateGroups) :
          g < h /\ FirstMatch(DateGroups, g) /\ Matches(DateGroups, h)
                /\ last.ret = DateGroups[g].label

\* the numeric rules in the order the claim gives them
NumericGroups ==
    << [patterns |-> << <<"p","r","i","c","e">>, <<"c","o","s","t">>, <<"a","m","o","u","n","t">> >>,
        label |-> <<"M","o","n","e","t","a","r","y"," ","v","a","l","u","e">>],
       [patterns |-> << <<"q","u","a","n","t","i","t","y">>, <<"c","o","u","n","t">>, <<"n","u","m","b","e","r">> >>,
        label |-> <<"Q","u","a","n","t","i","t","y"," ","o","r"," ","c","o","u","n","t">>],
       [patterns |-> << <<"d","i","s","c","o","u","n","t">> >>,
        label |-> <<"D","i","s","c","o","u","n","t"," ","v","a","l","u","e"," ","(","p","o","s","s","i","b","l","y"," ","p","e","r","c","e","n","t","a","g","e"," ","i","f"," ","b","e","t","w","e","e","n"," ","0","-","1"," ","o","r"," ","0","-","1","0","0",")">>],
       [patterns |-> << <<"t","o","t","a","l">> >>, label |-> <<"T","o","t","a","l"," ","c","a","l","c","u","l","a","t","e","d"," ","v","a","l","u","e">>] >>

\* C5: for a numeric column with no stored comment the label follows the
\* ordered rules price/cost/amount, quantity/count/number, discount, total,
\* else identifier suffix; in particular a name that contains "discount" and
\* none of price/cost/amount gets the discount label.
C5_NumericRules ==
    (AskedUncommented /\ TheColumn.type \in NumericTypes)
        => /\ \A g \in 1..Len(NumericGroups) :
                FirstMatch(NumericGroups, g) => last.ret = NumericGroups[g].label
           /\ ((\A g \in 1..Len(NumericGroups) : ~Matches(NumericGroups, g))
                 /\ AnyEndsWith(NameLower, id_patterns))
                => last.ret = <<"I","d","e","n","t","i","f","i","e","r"," ","o","r"," ","f","o","r","e","i","g","n"," ","k","e","y">>
           /\ (Contains(NameLower, <<"d","i","s","c","o","u","n","t">>) /\ ~Matches(NumericGroups, 1))
                => last.ret = NumericGroups[3].label

\* the name with only a trailing "_id" removed
WithoutIdSuffix(name) ==
    IF EndsWith(name, <<"_","i","d">>) THEN SubSeq(name, 1, Len(name) - 3) ELSE name

\* C6: with no stored comment and no type-category rule fired: the name "id"
\* gives "Primary identifier"; a name ending in "_id" with a non-empty rest
\* gives "Identifier for a {relation}", the relation being the name with only
\* the trailing "_id" removed; every other name gives the empty label.  Names
\* are compared in lower case, as the code compares them.
C6_IdentifierFallback ==
    (AskedUncommented /\ CategorySemantics(NameLower, TheColumn.type) = EmptyStr)
        => IF NameLower = <<"i","d">>
           THEN last.ret = <<"P","r","i","m","a","r","y"," ","i","d","e","n","t","i","f","i","e","r">>
           ELSE IF EndsWith(NameLower, <<"_","i","d">>) /\ WithoutIdSuffix(NameLower) # EmptyStr
           THEN last.ret = <<"I","d","e","n","t","i","f","i","e","r"," ","f","o","r"," ","a"," ">> \o WithoutIdSuffix(NameLower)
           ELSE last.ret = EmptyStr

\* the name with a leading "is_" or "has_" removed and the rest left as it is
WithoutIsHasPrefix(name) ==
    IF StartsWith(name, <<"i","s","_">>) THEN Drop(name, 3)
    ELSE IF StartsWith(name, <<"h","a","s","_">>) THEN Drop(name, 4)
    ELSE name

\* C7: for a boolean column with no stored comment whose name contains "is_"
\* or "has_", the label is "Indicates if the record " followed by the name with
\* the is_/has_ prefix stripped and the rest of the name intact; otherwise a
\* name containing active or enabled gets the active-or-enabled label.  The
\* name is taken in lower case, as the code takes it.
C7_BooleanRules ==
    (AskedUncommented /\ TheColumn.type \in BooleanTypes)
        => IF Contains(NameLower, <<"i","s","_">>) \/ Contains(NameLower, <<"h","a","s","_">>)
           THEN last.ret = <<"I","n","d","i","c","a","t","e","s"," ","i","f"," ","t","h","e"," ","r","e","c","o","r","d"," ">>
                              \o WithoutIsHasPrefix(NameLower)
           ELSE (Contains(NameLower, <<"a","c","t","i","v","e">>) \/ Contains(NameLower, <<"e","n","a","b","l","e","d">>))
                  => last.ret = <<"I","n","d","i","c","a","t","e","s"," ","i","f"," ","t","h","e"," ","r","e","c","o","r","d"," ","i","s"," ","a","c","t","i","v","e"," ","o","r"," ","e","n","a","b","l","e","d">>

\* the string rules in the order the claim gives them
StringGroups ==
    << [patterns |-> << <<"s","t","a","t","u","s">>, <<"s","t","a","t","e">>, <<"c","o","n","d","i","t","i","o","n">> >>,
        label |-> <<"S","t","a","t","u","s"," ","o","r"," ","s","t","a","t","e"," ","o","f"," ","t","h","e"," ","r","e","c","o","r","d">>],
       [patterns |-> << <<"n","a","m","e">> >>, label |-> <<"N","a","m","e"," ","o","r"," ","t","i","t","l","e">>],
       [patterns |-> << <<"d","e","s","c","r","i","p","t","i","o","n">>, <<"d","e","s","c">> >>, label |-> <<"D","e","s","c","r","i","p","t","i","v","e"," ","t","e","x","t">>],
       [patterns |-> << <<"c","o","d","e">> >>, label |-> <<"C","o","d","e"," ","o","r"," ","i","d","e","n","t","i","f","i","e","r">>],
       [patterns |-> << <<"a","d","d","r","e","s","s">> >>, label |-> <<"A","d","d","r","e","s","s"," ","i","n","f","o","r","m","a","t","i","o","n">>],
       [patterns |-> << <<"e","m","a","i","l">> >>, label |-> <<"E","m","a","i","l"," ","a","d","d","r","e","s","s">>],
       [patterns |-> << <<"p","h","o","n","e">> >>, label |-> <<"P","h","o","n","e"," ","n","u","m","b","e","r">>] >>

\* a label of the identifier fallback
IsIdentifierLabel(label) ==
    label = <<"P","r","i","m","a","r","y"," ","i","d","e","n","t","i","f","i","e","r">> \/ StartsWith(label, <<"I","d","e","n","t","i","f","i","e","r"," ","f","o","r"," ","a"," ">>)

\* C8: for a string-typed column with no stored comment, the label is that of
\* the first rule matching its lower-cased name, in the order
\* status/state/condition, name, description/desc, code, address, email,
\* phone; a name matching none of them falls through to the identifier
\* fallback.
C8_StringFirstRuleWins ==
    (AskedUncommented /\ TheColumn.type \in StringTypes)
        => /\ \A g \in 1..Len(StringGroups) :
                FirstMatch(StringGroups, g) => last.ret = StringGroups[g].label
           /\ (\A g \in 1..Len(StringGroups) : ~Matches(StringGroups, g))
                => IF NameLower = <<"i","d">> \/ EndsWith(NameLower, <<"_","i","d">>)
                   THEN IsIdentifierLabel(last.ret)
                   ELSE last.ret = EmptyStr

\* C8 happens: a string column whose name matches two rules gets the first,
\* and one that matches none reaches the identifier fallback
C8_Witness ==
    /\ AskedUncommented
    /\ TheColumn.type \in StringTypes
    /\ \/ /\ TheColumn.name = <<"s","t","a","t","u","s","_","c","o","d","e">>
          /\ last.ret = <<"S","t","a","t","u","s"," ","o","r"," ","s","t","a","t","e"," ","o","f"," ","t","h","e"," ","r","e","c","o","r","d">>
       \/ /\ TheColumn.name = <<"e","x","t","e","r","n","a","l","_","i","d">>
          /\ last.ret = <<"I","d","e","n","t","i","f","i","e","r"," ","f","o","r"," ","a"," ","e","x","t","e","r","n","a","l">>

------------------------------------------------------------------------------
(* Properties of the analyzer on a changing catalog, under Spec             *)

\* C2: over any sequence of infer_column_semantics and analyze_schema calls on
\* one analyzer, two infer calls with the same (table, column, type) return
\* the identical label, and get_comment_for_column is called at most once per
\* key, also for a column whose label is empty.  Stated here for the calls of
\* one snapshot lifetime, which the claim's "any sequence" includes.
C2_OneLookupPerKey ==
    /\ \A key \in DOMAIN lookups : lookups[key] <= 1
    /\ \A call \in DOMAIN labels : Cardinality(labels[call]) <= 1

\* the label a column of the snapshot carries ("" when it carries none)
SemanticsOf(column) ==
    IF "semantics" \in DOMAIN column THEN column.semantics ELSE EmptyStr

\* the label an inference from the catalog as it is now gives the column
FreshLabel(column) ==
    IF column.comment # EmptyStr THEN column.comment
    ELSE InferMeaning(column.name, column.type)

\* every column of the snapshot carries the label inferred from the catalog
SnapshotFresh ==
    \A i \in 1..Len(catalog) :
       \A j \in 1..Len(catalog[i].columns) :
          /\ schema_info.tables[i].columns[j].name = catalog[i].columns[j].name
          /\ SemanticsOf(schema_info.tables[i].columns[j])
                = FreshLabel(catalog[i].columns[j])

\* C3: every analyze_schema performs a fresh inference pass: when it is called
\* again on an analyzer that holds a snapshot, the labels of the new snapshot
\* are those inferred from the catalog as it is at that call, not labels
\* carried over from the earlier call.
C3_FreshInference ==
    [][(schema_info # EmptyDict /\ last'.op = "analyze_schema") => SnapshotFresh']_vars

------------------------------------------------------------------------------
(* Properties of extract_sql_from_response, under SpecExtract               *)

\* the opening fences of the complete code blocks of a text: a fence with a
\* closing fence after it
TagLength(text, i) ==
    IF i + 5 <= Len(text) /\ SubSeq(text, i + 3, i + 5) = <<"s","q","l">> THEN 3 ELSE 0
BlockOpenings(text) ==
    { i \in 1..Len(text) :
        /\ IsFenceAt(text, i)
        /\ \E j \in (i + 3 + TagLength(text, i))..Len(text) : IsFenceAt(text, j) }

\* the interior of the first complete code block, its optional sql tag left out
FirstBlockInterior(text) ==
    LET i == CHOOSE o \in BlockOpenings(text) : \A p \in BlockOpenings(text) : o <= p
        from == i + 3 + TagLength(text, i)
        close == CHOOSE j \in from..Len(text) :
                    IsFenceAt(text, j) /\ \A q \in from..(j - 1) : ~IsFenceAt(text, q)
    IN  SubSeq(text, from, close - 1)

\* C9: when the raw text holds at least one complete fenced code block
\* (optionally tagged sql), the extraction starts from the trimmed interior of
\* the first block, whatever is outside it or in later blocks; when it holds
\* none, from the whole raw text, trimmed; the empty text gives the empty text.
C9_FirstBlockOrWholeText ==
    sql_query.returned
        => /\ sql_block = IF BlockOpenings(response) # {}
                          THEN Strip(FirstBlockInterior(response))
                          ELSE Strip(response)
           /\ response = EmptyStr => sql_query.value = EmptyStr

\* C9 happens: text before the first block and a different block after it
C9_Witness ==
    /\ sql_query.returned
    /\ response = TwoBlockResponse
    /\ sql_block = <<"S","E","L","E","C","T"," ","1",";">>

\* the three labels of the claim, colon included
PrefixLabels == { <<"s","q","l"," ","q","u","e","r","y",":">>, <<"q","u","e","r","y",":">>, <<"s","q","l",":">> }
LabelsAt(s) ==
    { l \in PrefixLabels : Len(l) <= Len(s) /\ Lower(SubSeq(s, 1, Len(l))) = l }

\* C10: the prefix-strip step removes only a leading "SQL query:", "Query:" or
\* "SQL:" (any letter case, colon included, with the white space after it); a
\* string that does not start with one of the three is left unchanged.
C10_OnlyColonLabelsStripped ==
    sql_query.returned
        => IF LabelsAt(sql_block) = {}
           THEN sql_stripped = sql_block
           ELSE \E l \in LabelsAt(sql_block) :
                   sql_stripped = LStrip(Drop(sql_block, Len(l)))

\* C11: whatever the raw text, the string extract_sql_from_response returns
\* holds no backtick character.
C11_NoBacktickReturned ==
    sql_query.returned
        => \A i \in 1..Len(sql_query.value) : sql_query.value[i] # Backtick

\* C11 happens: a backtick survived the block selection and the prefix strip,
\* and the last step removed it
C11_Witness ==
    /\ sql_query.returned
    /\ \E i \in 1..Len(sql_stripped) : sql_stripped[i] = Backtick
    /\ sql_query.value # EmptyStr

------------------------------------------------------------------------------
(* Properties of analyze_schema when a statement fails, under SpecBuild     *)

Analyzed == last.op \in { "analyze_schema", "analyze_schema raised" }
SnapshotTables == { schema_info.tables[i].name : i \in 1..Len(schema_info.tables) }
SampledRows(i) ==
    IF catalog[i].rows < SampleLimit THEN catalog[i].rows ELSE SampleLimit

\* C18: when the sample-row fetch of one table fails during analyze_schema,
\* the build still completes; every table is in the snapshot with its columns
\* and labels, and every other table that has rows has its sample rows, the
\* tables analysed after the failing one included.
C18_SampleFailureIsolated ==
    (Analyzed /\ last.occurred /\ last.fault.query \in SampleQueries)
        => /\ last.op = "analyze_schema"
           /\ Len(schema_info.tables) = Len(catalog)
           /\ \A i \in 1..Len(catalog) :
                 /\ schema_info.tables[i].name = catalog[i].name
                 /\ Len(schema_info.tables[i].columns) = Len(catalog[i].columns)
                 /\ \A j \in 1..Len(catalog[i].columns) :
                       LET key == ColumnKey(catalog[i].name,
                                            catalog[i].columns[j].name)
                       IN  key \in DOMAIN column_semantics
                             => schema_info.tables[i].columns[j].semantics
                                   = column_semantics[key]
                 /\ (i # last.fault.table /\ catalog[i].rows > 0)
                       => /\ catalog[i].name \in DOMAIN schema_info.sample_data
                          /\ Len(schema_info.sample_data[catalog[i].name])
                                = SampledRows(i)
           /\ catalog[last.fault.table].name \notin DOMAIN schema_info.sample_data

\* C19: when a metadata query (columns, table comment or column comment) of
\* one table fails during analyze_schema, analyze_schema still returns a
\* snapshot, and the snapshot holds all the other tables.
C19_MetadataFailureIsolated ==
    (Analyzed /\ last.occurred /\ last.fault.query \in MetadataQueries)
        => /\ last.op = "analyze_schema"
           /\ \A i \in 1..Len(catalog) :
                 i # last.fault.table => catalog[i].name \in SnapshotTables

------------------------------------------------------------------------------
(* Properties of the question flow, under SpecSession                       *)

LastCall == exec_log[Len(exec_log)]
EmptyExtraction ==
    pressed = "generate" /\ sql_query.returned /\ sql_query.value = EmptyStr

\* C12: in the question flow, when the SQL extracted from the model output is
\* empty, execute_query is not called for that question: the run halts before
\* the execution and reports the empty extraction, not an execution error.
C12_EmptyExtractionNotExecuted ==
    EmptyExtraction
        => /\ run_executes = 0
           /\ "error_executing" \notin screen
           /\ pc = "idle" => "extraction_empty" \in screen

\* C13: per question the stages are strictly ordered. No two of the calls
\* generate, execute, explain are in progress at the same time; the generated
\* SQL is executed only once the generation call has returned and the
\* extraction is done; the explanation call starts only once execute_query
\* has returned.
C13_StagesSequential ==
    /\ Cardinality(in_flight) <= 1
    /\ pc = "generating" => in_flight = { "generate" } /\ ~sql_query.returned
    /\ pc = "executing"
         => /\ in_flight = { "execute" }
            /\ sql_query.returned
            /\ LastCall.path = "generated" /\ LastCall.query = sql_query.value
            /\ LastCall.result = "running"
    /\ pc \in { "explaining", "explaining_error" }
         => /\ in_flight = { "explain" }
            /\ LastCall.path = "generated" /\ LastCall.result # "running"
    /\ pc = "idle" => in_flight = {}

\* C13 happens: the explanation call of a question is in progress, after the
\* generation and the execution of its SQL
C13_Witness ==
    /\ pc = "explaining"
    /\ in_flight = { "explain" }
    /\ sql_query.value # EmptyStr
    /\ LastCall.result = "ok"

\* C14: after a generated query has failed, the user can press "Execute Fixed
\* Query" with a replacement, and the run that the press starts executes it
\* (unless the reconnect fails).
C14_FixedQueryIsExecuted ==
    (pressed = "fixed" /\ pc = "idle" /\ sql_query.value # EmptyStr)
        => \/ "reconnect_failed" \in screen
           \/ /\ run_executes = 1
              /\ LastCall.path = "fixed"

CallsReturned ==
    Len(exec_log) - (IF exec_log # <<>> /\ LastCall.result = "running" THEN 1 ELSE 0)
QuestionOf(path) ==
    CASE path = "generated" -> "question"
      [] path = "fixed" -> "FIXED: question"
      [] path = "manual" -> "MANUAL QUERY"

\* C15: every execution attempt (generated, fixed or manual) appends exactly
\* one entry to query_history, whether it succeeded or failed: once the calls
\* have returned and the run has finished, the history has one entry per
\* call, in call order.
C15_OneEntryPerAttempt ==
    pc = "idle"
        => /\ Len(query_history) = CallsReturned
           /\ \A i \in 1..Len(query_history) :
                 /\ query_history[i].sql_query = exec_log[i].query
                 /\ query_history[i].question = QuestionOf(exec_log[i].path)

\* C16: execute_query is called only in a script run started by a press of
\* Generate SQL, Execute Fixed Query or Execute Manual Query, and once per
\* run: a failed query, or a query corrected by the model, is never submitted
\* again by the script itself.
C16_NoAutomaticRetry ==
    [][Len(exec_log') > Len(exec_log)
          => /\ pressed' \in { "generate", "fixed", "manual" }
             /\ run_executes' = 1
             /\ Len(exec_log') = Len(exec_log) + 1]_vars

\* C16 happens: an execution has failed and a later press has executed again
C16_Witness ==
    /\ Len(exec_log) = 2
    /\ exec_log[1].result = "raised"
    /\ exec_log[2].result = "ok"
    /\ pc = "idle"

\* C17: in the flow of pg-query/ui/streamlit.py, every execute_query call
\* (generated, fixed and manual paths) comes after a connection check, with
\* one reconnect when the check fails; when the reconnect fails the query is
\* not executed and no history entry is appended.
C17_LivenessCheckedBeforeExecute ==
    app = UiApp
        => /\ \A i \in 1..Len(exec_log) :
                 exec_log[i].checked /\ exec_log[i].reconnects \in { 0, 1 }
           /\ "reconnect_failed" \in screen
                 => run_executes = 0 /\ "answer" \notin screen

\* C20: whenever execute_query fails for a generated query, the repair flow
\* is entered: once the run has finished the error is on the screen with the
\* "Fix the Query" editing option, also when the model call that explains the
\* error fails.
C20_RepairAlwaysOffered ==
    (pc = "idle" /\ pressed = "generate" /\ run_executes = 1
       /\ LastCall.path = "generated" /\ LastCall.result = "raised"
       /\ LastCall.query # EmptyStr)
        => { "error_executing", "fix_option" } \subseteq screen

\* C21: when the model call that explains the results of a generated query
\* fails after the query has executed successfully, the failure is not
\* reported as a query execution error and the question does not enter the
\* repair flow ("Fix the Query") for that query.
C21_ExplainFailureIsNotExecutionError ==
    (pressed = "generate" /\ run_executes = 1
       /\ LastCall.path = "generated" /\ LastCall.result = "ok")
        => /\ "error_executing" \notin screen
           /\ "fix_option" \notin screen
           /\ pc # "explaining_error"

IsPrefix(s, t) == Len(s) <= Len(t) /\ SubSeq(t, 1, Len(s)) = s
\* the run has finished without st.stop(), so that it reached the history
RunReachedHistory ==
    pc = "idle" /\ screen \cap { "extraction_empty", "reconnect_failed" } = {}

\* C22: query_history is append-only: no step removes, reorders or modifies an
\* entry, new entries are added at the end only, and the history view the
\* script renders lists the entries in the reverse of the storage order, the
\* most recent first.
C22_HistoryAppendOnly ==
    /\ [][IsPrefix(query_history, query_history')]_vars
    /\ [](/\ history_tabs # <<>> => RunReachedHistory
          /\ (RunReachedHistory /\ connected)
                => /\ Len(history_tabs) = Len(query_history)
                   /\ \A i \in 1..Len(query_history) :
                         history_tabs[i]
                            = query_history[Len(query_history) + 1 - i])

\* C22 happens: the history holds two different entries and the view of a
\* later run shows them
C22_Witness ==
    /\ Len(query_history) = 2
    /\ query_history[1] # query_history[2]
    /\ pressed = "use_query"
    /\ Len(history_tabs) = 2

------------------------------------------------------------------------------
(* Properties of the two renderers, under SpecRender                        *)

RenderOps == { "generate_schema_description", "generate_schema_for_llm" }
Rendered == last.op \in RenderOps
PiecesOf(part) == { n \in 1..Len(last.pieces) : last.pieces[n].part = part }
PiecesOfTable(part, table) ==
    { n \in PiecesOf(part) : last.pieces[n].table = table }
\* the sample rows the snapshot holds for a table
SnapshotRows(table) ==
    IF table \in DOMAIN schema_info.sample_data
    THEN Len(schema_info.sample_data[table]) ELSE 0

\* C23: on a built snapshot, also one with zero tables, with zero
\* relationships, or with a table without sample rows, both renderers return
\* without raising; the relationships section is in the rendering if and only
\* if the snapshot has a relationship, and the sample-data block of a table if
\* and only if the table has a sample row, with the first rows of the sample,
\* at most 2 of them.
C23_RenderersTolerateEmptyParts ==
    Rendered
        => /\ ~last.raised
           /\ last.ret = Text(last.pieces)
           /\ PiecesOf("relationships") # {} <=> schema_info.relationships # <<>>
           /\ Cardinality(PiecesOf("relationship")) = Len(schema_info.relationships)
           /\ Cardinality(PiecesOf("table")) = Len(schema_info.tables)
           /\ \A i \in 1..Len(schema_info.tables) :
                 LET table == schema_info.tables[i].name
                     rows == SnapshotRows(table)
                 IN  /\ PiecesOfTable("sample_data", table) # {} <=> rows > 0
                     /\ Cardinality(PiecesOfTable("sample_row", table))
                           = IF rows < 2 THEN rows ELSE 2
                     /\ \A n \in PiecesOfTable("sample_row", table) :
                           \E m \in PiecesOfTable("sample_data", table) : m < n

\* C23 happens: a snapshot without relationships, of a table with three sample
\* rows and a table with none, has been rendered
C23_Witness ==
    /\ Rendered
    /\ schema_info.relationships = <<>>
    /\ \E i, j \in 1..Len(schema_info.tables) :
          /\ SnapshotRows(schema_info.tables[i].name) = 3
          /\ SnapshotRows(schema_info.tables[j].name) = 0

\* C24: the renderers have no side effects: in every state of the analyzer,
\* also before any analyze_schema call, a call of generate_schema_description
\* or generate_schema_for_llm leaves schema_info and column_semantics as they
\* were and sends no catalog query.
C24_RenderersHaveNoSideEffects ==
    [][last'.op \in RenderOps /\ last' # last
          => /\ schema_info' = schema_info
             /\ column_semantics' = column_semantics
             /\ lookups' = lookups
             /\ ~last'.analyzed]_vars

\* the label the snapshot holds for a column, "" when it holds none
LabelOf(table, column) ==
    Get(schema_info.column_semantics, ColumnKey(table, column), EmptyStr)
\* the connective of relationship k in a rendering, without the white space
\* around it; "" when the rendering has none
ConnectiveIn(pieces, k) ==
    LET at == { n \in 1..Len(pieces) :
                   pieces[n].part = "connects" /\ pieces[n].index = k }
    IN  IF at = {} THEN EmptyStr ELSE Strip(pieces[CHOOSE n \in at : TRUE].text)

\* C25: for every relationship of the snapshot both renderers emit the same
\* connective "(Connects ... to ...)": it is emitted if and only if the label
\* of the owning column or the label of the referenced column is non-empty,
\* and it ends with the label of the referenced column when that is non-empty
\* and with the name of the referenced table otherwise, never with nothing.
C25_ConnectiveNamesTarget ==
    Rendered
        => \A k \in 1..Len(schema_info.relationships) :
              LET rel == schema_info.relationships[k]
                  fk == LabelOf(rel.table, rel.column)
                  pk == LabelOf(rel.references_table, rel.references_column)
                  target == IF pk # EmptyStr THEN pk ELSE rel.references_table
                  shown == ConnectiveIn(last.pieces, k)
              IN  /\ shown # EmptyStr <=> (fk # EmptyStr \/ pk # EmptyStr)
                  /\ shown = ConnectiveIn(DescriptionPieces(schema_info), k)
                  /\ shown = ConnectiveIn(BriefPieces(schema_info), k)
                  /\ shown # EmptyStr
                        => /\ target # EmptyStr
                           /\ StartsWith(shown, <<"(","C","o","n","n","e","c","t","s"," ">>)
                           /\ EndsWith(shown, <<"t","o"," ">> \o target \o <<")">>)
                           /\ fk # EmptyStr
                                 => StartsWith(shown, <<"(","C","o","n","n","e","c","t","s"," ">> \o fk \o <<" ","t","o"," ">>)
                           /\ Contains(last.ret, shown)

\* C25 happens: a rendered snapshot has a relationship from a labelled column
\* to a column without label
C25_Witness ==
    /\ Rendered
    /\ \E k \in 1..Len(schema_info.relationships) :
          LET rel == schema_info.relationships[k]
          IN  /\ LabelOf(rel.table, rel.column) = <<"I","d","e","n","t","i","f","i","e","r"," ","o","r"," ","f","o","r","e","i","g","n"," ","k","e","y">>
              /\ LabelOf(rel.references_table, rel.references_column) = EmptyStr
              /\ ConnectiveIn(last.pieces, k)
                    = <<"(","C","o","n","n","e","c","t","s"," ","I","d","e","n","t","i","f","i","e","r"," ","o","r"," ","f","o","r","e","i","g","n"," ","k","e","y"," ","t","o"," ","c","u","s","t","o","m","e","r","s",")">>

\* the rows the date/time reference table must have: one per column of the
\* snapshot with a date/time type and a non-empty label
DateRowsExpected ==
    { <<"|"," ">> \o ColumnKey(schema_info.tables[ij[1]].name,
                          schema_info.tables[ij[1]].columns[ij[2]].name)
      \o <<" ","|"," ">> \o SemanticsOf(schema_info.tables[ij[1]].columns[ij[2]])
      \o <<" ","|","\n">> :
        ij \in { c \in UNION { { <<i, j>> : j \in 1..Len(schema_info.tables[i].columns) } :
                               i \in 1..Len(schema_info.tables) } :
                   /\ schema_info.tables[c[1]].columns[c[2]].type \in DateTypes
                   /\ SemanticsOf(schema_info.tables[c[1]].columns[c[2]]) # EmptyStr } }

\* C27: the date/time reference table of generate_schema_for_llm has one row
\* for each column of the snapshot whose declared type is a date/time type and
\* whose label is non-empty, with that label, and no other row; the table is
\* left out when there is no such column.
C27_DateReferenceTable ==
    last.op = "generate_schema_for_llm"
        => /\ { last.pieces[n].text : n \in PiecesOf("date_column") }
                 = DateRowsExpected
           /\ Cardinality(PiecesOf("date_column")) = Cardinality(DateRowsExpected)
           /\ Cardinality(PiecesOf("date_columns"))
                 = IF DateRowsExpected = {} THEN 0 ELSE 1
           /\ \A n \in PiecesOf("date_column") :
                 \E m \in PiecesOf("date_columns") : m < n
           /\ Contains(last.ret, <<"#","#"," ","D","a","t","e","/","T","i","m","e"," ","C","o","l","u","m","n"," ","R","e","f","e","r","e","n","c","e">>)
                 <=> DateRowsExpected # {}

\* C27 happens: the brief of a snapshot with a labelled date/time column, a
\* date column without label and a labelled column of another type
C27_Witness ==
    /\ last.op = "generate_schema_for_llm"
    /\ Cardinality(PiecesOf("date_column")) = 1
    /\ \E i \in 1..Len(schema_info.tables) :
          \E j, k \in 1..Len(schema_info.tables[i].columns) :
             /\ schema_info.tables[i].columns[j].type = <<"d","a","t","e">>
             /\ SemanticsOf(schema_info.tables[i].columns[j]) = EmptyStr
             /\ schema_info.tables[i].columns[k].type \notin DateTypes
             /\ SemanticsOf(schema_info.tables[i].columns[k]) # EmptyStr

====
